---------------------------- MODULE Spec2Model ----------------------------
(***************************************************************************)
(* A model of dropback: the node tree with its upload and restore walks    *)
(* (src/node.py), the diff engine and the backup and restore commands      *)
(* (src/src/backup.py).                                                    *)
(*                                                                         *)
(* Names are modelled as the naturals 1..MaxName, ordered by <, which      *)
(* stands for the lexicographic order of the name strings.  A node is a    *)
(* record; a folder owns the sequence of its children, in the order in     *)
(* which they were discovered.  Python's None is the integer None for      *)
(* attributes and the record NoNode for an absent node.  The ctime of a     *)
(* node is left out: it is stored and serialized next to the other stats   *)
(* and read by none of the operations modelled here.  The "_type" key of a *)
(* serialized node is the field type.                                      *)
(***************************************************************************)
EXTENDS Integers, Sequences, FiniteSets, TLC

VARIABLES
    local,          \* the tree built by walk_local_tree_r
    remote,         \* the tree built by walk_remote_tree_r
    max_depth,      \* the max_recurse_depth argument of diff_trees
    phase,          \* position of the command
    diff_result,    \* what diff_trees returned, or the exception it raised
    target_base,    \* the folder of the target, as the names below /<target>/data
    overwrite_mode, \* the overwrite_mode argument of upload
    nodes_to_upload,\* the changeset tree that upload walks and marks
    stack,          \* the active calls of upload, the innermost last
    dropbox,        \* the remote store: its objects and its metadata objects
    log,            \* the calls made so far, in order
    failures,       \* how many calls have failed so far
    disk            \* the local files below the destination of a restore

diff_vars == <<local, remote, max_depth, diff_result>>

upload_vars ==
    <<target_base, overwrite_mode, nodes_to_upload, stack, dropbox, log, failures, disk>>

vars == <<local, remote, max_depth, phase, diff_result, target_base, overwrite_mode,
          nodes_to_upload, stack, dropbox, log, failures, disk>>

(***************************************************************************)
(* Bounds of the model.                                                    *)
(***************************************************************************)
MaxName == 2

MaxNodes == 3

MaxUploadNodes == 2

MaxFailures == 1


(***************************************************************************)
(* Python values.                                                          *)
(***************************************************************************)
None == -1

NoNode == [type |-> "None"]

IsNone(n) == n.type = "None"

(***************************************************************************)
(* Nodes (NFile.__init__, NFolder.__init__, NRootFolder.__init__).         *)
(***************************************************************************)
NFile(name, stats) ==
    [type |-> "NFile", name |-> name,
     uid |-> stats.uid, gid |-> stats.gid, mode |-> stats.mode,
     mtime |-> stats.mtime, size |-> stats.size,
     symlink_target |-> None, uploaded |-> FALSE, todelete |-> FALSE,
     children |-> <<>>]

NFolder(name, stats, children) ==
    [NFile(name, stats) EXCEPT !.type = "NFolder", !.children = children]

NoStats == [uid |-> None, gid |-> None, mode |-> None, mtime |-> None, size |-> None]

NRootFolder(children) ==
    [NFolder(0, NoStats, children) EXCEPT !.type = "NRootFolder"]

\* isinstance(n, NFolder): NRootFolder is a subclass of NFolder
IsFolder(n) == n.type \in {"NFolder", "NRootFolder"}

(***************************************************************************)
(* sorted(children, key=lambda x: x.name): a stable insertion sort.        *)
(***************************************************************************)
RECURSIVE InsertByName(_, _)
InsertByName(sorted, n) ==
    IF sorted = <<>> THEN <<n>>
    ELSE IF n.name < Head(sorted).name THEN <<n>> \o sorted
    ELSE <<Head(sorted)>> \o InsertByName(Tail(sorted), n)

\* the children taken in the order of discovery
SortByName_Unsorted(nodes) == nodes

RECURSIVE SortByName(_)
SortByName(nodes) ==
    IF nodes = <<>> THEN <<>>
    ELSE InsertByName(SortByName(SubSeq(nodes, 1, Len(nodes) - 1)), nodes[Len(nodes)])

(***************************************************************************)
(* diff_trees_r (src/src/backup.py).                                       *)
(***************************************************************************)
\* a comparison that forgets the group
StatsMatch_NoGid(l, r) ==
    /\ l.size = r.size
    /\ l.mtime = r.mtime
    /\ l.mode = r.mode
    /\ l.uid = r.uid

\* the five attributes compared for two nodes of the same name
StatsMatch(l, r) ==
    /\ l.size = r.size
    /\ l.mtime = r.mtime
    /\ l.mode = r.mode
    /\ l.gid = r.gid
    /\ l.uid = r.uid

\* the comparison of a folder pair that marks the copy as uploaded
FolderMatch(l, r) == l.size = r.size /\ l.mtime = r.mtime

\* a marking that also asks for the upload of the node
MarkToDelete_Unuploaded(n) == [n EXCEPT !.todelete = TRUE, !.uploaded = FALSE]

\* r.todelete = True
MarkToDelete(n) == [n EXCEPT !.todelete = TRUE]

RECURSIVE MarkAllToDelete(_)
MarkAllToDelete(nodes) ==
    IF nodes = <<>> THEN <<>>
    ELSE <<MarkToDelete(Head(nodes))>> \o MarkAllToDelete(Tail(nodes))

\* "if diff_child:": None is false, a node object is true
Truthy(n) == ~IsNone(n)

RECURSIVE diff_trees_r(_, _, _)
RECURSIVE MergeChildren(_, _, _, _, _)

\* the while loop and the two tails, l_pointer = lp, r_pointer = rp
MergeChildren(l_nodes, r_nodes, lp, rp, depth) ==
    IF lp <= Len(l_nodes) /\ rp <= Len(r_nodes) THEN
        LET l == l_nodes[lp]
            r == r_nodes[rp]
        IN  IF l.name = r.name THEN
                LET equal_child == IF StatsMatch(l, r) THEN r ELSE l
                    diff_child ==
                        IF IsFolder(l) /\ IsFolder(r) /\ depth # 0
                        THEN diff_trees_r(l, r, depth - 1)
                        ELSE equal_child
                IN  (IF Truthy(diff_child) THEN <<diff_child>> ELSE <<>>)
                        \o MergeChildren(l_nodes, r_nodes, lp + 1, rp + 1, depth)
            ELSE IF l.name < r.name THEN
                <<l>> \o MergeChildren(l_nodes, r_nodes, lp + 1, rp, depth)
            ELSE
                <<MarkToDelete(r)>> \o MergeChildren(l_nodes, r_nodes, lp, rp + 1, depth)
    ELSE SubSeq(l_nodes, lp, Len(l_nodes))
            \o MarkAllToDelete(SubSeq(r_nodes, rp, Len(r_nodes)))

diff_trees_r(l, r, depth) ==
    LET diff_node == [l EXCEPT !.children = <<>>,
                               !.uploaded = IF FolderMatch(l, r) THEN TRUE ELSE l.uploaded]
        merged == MergeChildren(SortByName(l.children), SortByName(r.children), 1, 1, depth)
    IN  IF Len(merged) > 0 THEN [diff_node EXCEPT !.children = merged] ELSE NoNode

(***************************************************************************)
(* diff_trees (src/src/backup.py).  The result is the node returned, or    *)
(* the exception raised: with max_recurse_depth = 0 the name diff_child is *)
(* read before it was ever assigned.                                       *)
(***************************************************************************)
Returned(n) == [status |-> "returned", node |-> n]

Raised(e) == [status |-> "raised", node |-> NoNode, exception |-> e]

diff_trees(local_root_node, remote_root_node, max_recurse_depth) ==
    IF max_recurse_depth # 0 THEN
        LET diff_child == diff_trees_r(local_root_node, remote_root_node, -1)
        IN  IF ~Truthy(diff_child)
            THEN Returned([local_root_node EXCEPT !.children = <<>>])
            ELSE Returned(diff_child)
    ELSE Raised("UnboundLocalError")

(***************************************************************************)
(* The trees the builders can produce, up to MaxNodes nodes below the root *)
(* and two levels deep.  walk_local_tree_r leaves uploaded = False on      *)
(* every node; walk_remote_tree_r sets uploaded = True on every child it   *)
(* constructs.  A symlinked folder has no children on either side.         *)
(***************************************************************************)
Stat0 == [uid |-> 1, gid |-> 1, mode |-> 1, mtime |-> 1, size |-> 5]

ChangedStats ==
    { [Stat0 EXCEPT !.size = 6], [Stat0 EXCEPT !.mtime = 2], [Stat0 EXCEPT !.mode = 2],
      [Stat0 EXCEPT !.gid = 2], [Stat0 EXCEPT !.uid = 2] }

LinkTarget == 7

Symlink(n) == [n EXCEPT !.symlink_target = LinkTarget]

Uploaded(n) == [n EXCEPT !.uploaded = TRUE]

Named(n, name) == [n EXCEPT !.name = name]

OnSide(side, n) == IF side = "remote" THEN Uploaded(n) ELSE n

SizeChanged == [Stat0 EXCEPT !.size = 6]

MtimeChanged == [Stat0 EXCEPT !.mtime = 2]

\* the stats of a side's files and folders: the remote index may record other
\* stats than the local file system has now
FileStats(side, changed) == IF side = "remote" THEN {Stat0, changed} ELSE {Stat0}

FolderStats(side) == IF side = "remote" THEN {Stat0, MtimeChanged} ELSE {Stat0}

LeafOpts(side) ==
    { OnSide(side, NFile(0, st)) : st \in FileStats(side, SizeChanged) }
        \cup { OnSide(side, NFolder(0, Stat0, <<>>)) }

RECURSIVE LeafLists(_, _, _)
LeafLists(side, n, budget) ==
    IF n > MaxName \/ budget <= 0 THEN { <<>> }
    ELSE LeafLists(side, n + 1, budget)
         \cup { <<Named(o, n)>> \o rest :
                    o \in LeafOpts(side), rest \in LeafLists(side, n + 1, budget - 1) }

Level1Opts(side, stats, budget) ==
    { OnSide(side, NFile(0, st)) : st \in stats }
        \cup { OnSide(side, Symlink(NFile(0, Stat0))),
               OnSide(side, Symlink(NFolder(0, Stat0, <<>>))) }
        \cup { OnSide(side, NFolder(0, st, kids)) :
                    st \in FolderStats(side), kids \in LeafLists(side, 1, budget - 1) }

Cost(n) == 1 + Len(n.children)

RECURSIVE RootLists(_, _, _, _)
RootLists(side, stats, n, budget) ==
    IF n > MaxName \/ budget <= 0 THEN { <<>> }
    ELSE RootLists(side, stats, n + 1, budget)
         \cup UNION { { <<Named(o, n)>> \o rest :
                            rest \in RootLists(side, stats, n + 1, budget - Cost(o)) } :
                      o \in Level1Opts(side, stats, budget) }

RECURSIVE Reverse(_)
Reverse(s) == IF s = <<>> THEN <<>> ELSE Reverse(Tail(s)) \o <<Head(s)>>

\* the listing order of a directory is not the name order
Trees(side, stats, budget) ==
    { NRootFolder(kids) : kids \in RootLists(side, stats, 1, budget) }
        \cup IF side = "local"
             THEN { NRootFolder(Reverse(kids)) : kids \in RootLists(side, stats, 1, budget) }
             ELSE {}

\* the trees of each side, by the budget of nodes they fit in
LocalTrees == [budget \in 0..MaxNodes |-> Trees("local", {Stat0}, budget)]

RemoteTrees == [budget \in 0..MaxNodes |-> Trees("remote", {Stat0} \cup ChangedStats, budget)]

\* the number of nodes below the root
Size(tree) ==
    LET RECURSIVE Sum(_)
        Sum(nodes) == IF nodes = <<>> THEN 0 ELSE Cost(Head(nodes)) + Sum(Tail(nodes))
    IN  Sum(tree.children)

(***************************************************************************)
(* The diff engine alone: diff_trees applied to a pair of trees.           *)
(***************************************************************************)
DiffDepths == {-1, 0, 1}

InitDiff ==
    /\ local \in LocalTrees[MaxNodes]
    /\ remote \in RemoteTrees[MaxNodes - Size(local)]
    /\ max_depth \in DiffDepths
    /\ phase = "start"
    /\ diff_result = Raised("none")
    /\ target_base = <<>>
    /\ overwrite_mode = TRUE
    /\ nodes_to_upload = NoNode
    /\ stack = <<>>
    /\ dropbox = [objects |-> {}, index |-> <<>>]
    /\ log = <<>>
    /\ failures = 0
    /\ disk = {}

DiffTrees ==
    /\ phase = "start"
    /\ diff_result' = diff_trees(local, remote, max_depth)
    /\ phase' = "diffed"
    /\ UNCHANGED <<local, remote, max_depth>>
    /\ UNCHANGED upload_vars

NextDiff == DiffTrees

SpecDiff == InitDiff /\ [][NextDiff]_vars


(***************************************************************************)
(* Properties of the diff engine.  They are stated over the pairs of       *)
(* folders that the merge visits: the two roots, and every pair of         *)
(* same-named folders below a visited pair whose changeset is not empty.   *)
(***************************************************************************)
Positions(n) == 1..Len(n.children)

ChildNames(n) == { n.children[k].name : k \in Positions(n) }

ChildrenNamed(n, name) == { k \in Positions(n) : n.children[k].name = name }

Child(n, name) == n.children[CHOOSE k \in Positions(n) : n.children[k].name = name]

FiveEqual(a, b) ==
    /\ a.size = b.size /\ a.mtime = b.mtime /\ a.mode = b.mode
    /\ a.gid = b.gid /\ a.uid = b.uid

BothFolders(a, b) == IsFolder(a) /\ IsFolder(b)

Diffed == phase = "diffed" /\ diff_result.status = "returned"

\* P(l, r, c) for every visited pair: the operators below recurse alike
RECURSIVE EqualNamesRule(_, _, _)
EqualNamesRule(l, r, c) ==
    \A name \in ChildNames(l) \cap ChildNames(r) :
        LET ln == Child(l, name)
            rn == Child(r, name)
        IN  IF BothFolders(ln, rn)
            THEN ChildrenNamed(c, name) # {} => EqualNamesRule(ln, rn, Child(c, name))
            ELSE /\ Cardinality(ChildrenNamed(c, name)) = 1
                 /\ (Child(c, name) = rn /\ rn.uploaded) <=> FiveEqual(ln, rn)
                 /\ ~FiveEqual(ln, rn) => (Child(c, name) = ln /\ ~ln.uploaded)

\* C1: in diff, a local child and a remote child of the same folder with
\* equal names that are not both Folders give the remote node (uploaded) as
\* the changeset child if and only if size, mtime, mode, gid and uid are all
\* equal; otherwise they give the local node, which is not uploaded.
C1_EqualNames == Diffed => EqualNamesRule(local, remote, diff_result.node)

\* a file recorded with another group than the local file has: the local
\* file is the changeset child
C1_Witness ==
    /\ Diffed
    /\ \E name \in ChildNames(local) \cap ChildNames(remote) :
          LET ln == Child(local, name)
              rn == Child(remote, name)
          IN  /\ ~BothFolders(ln, rn)
              /\ ln.gid # rn.gid
              /\ ln.size = rn.size /\ ln.mtime = rn.mtime
              /\ ln.mode = rn.mode /\ ln.uid = rn.uid
              /\ Child(diff_result.node, name) = ln

Ascending(c) ==
    \A j, k \in Positions(c) : j < k => c.children[j].name < c.children[k].name

RECURSIVE MergeRule(_, _, _)
MergeRule(l, r, c) ==
    /\ Ascending(c)
    /\ ChildNames(c) \subseteq ChildNames(l) \cup ChildNames(r)
    /\ \A name \in ChildNames(l) \ ChildNames(r) :
          /\ ChildrenNamed(c, name) # {}
          /\ Child(c, name) = Child(l, name)
          /\ ~Child(c, name).todelete
    /\ \A name \in ChildNames(r) \ ChildNames(l) :
          /\ ChildrenNamed(c, name) # {}
          /\ Child(c, name) = [Child(r, name) EXCEPT !.todelete = TRUE]
    /\ \A k \in Positions(c) : c.children[k].todelete => c.children[k].name \notin ChildNames(l)
    /\ \A name \in ChildNames(l) \cap ChildNames(r) :
          (BothFolders(Child(l, name), Child(r, name)) /\ ChildrenNamed(c, name) # {})
              => MergeRule(Child(l, name), Child(r, name), Child(c, name))

\* C2: for folders with unique sibling names, the changeset children are in
\* strictly ascending name order and hold each name of the union at most
\* once; a local-only name gives the local node, not flagged for deletion, a
\* remote-only name gives the remote node flagged for deletion, and no node
\* whose name exists locally in the folder is flagged.
C2_Merge == Diffed => MergeRule(local, remote, diff_result.node)

\* a remote-only name below a local-only name: the changeset holds the remote
\* node, flagged, before the local node, not flagged
C2_Witness ==
    /\ Diffed
    /\ Len(diff_result.node.children) = 2
    /\ diff_result.node.children[1].todelete
    /\ diff_result.node.children[1].name \in ChildNames(remote) \ ChildNames(local)
    /\ ~diff_result.node.children[2].todelete
    /\ diff_result.node.children[2].name \in ChildNames(local) \ ChildNames(remote)

\* C4: diff_trees returns a changeset root for every pair of trees and every
\* max_depth, max_depth = 0 and an empty merge included, and the root it
\* returns is marked uploaded when size and mtime of the two roots match.
C4_AlwaysReturnsRoot ==
    phase = "diffed" =>
        /\ diff_result.status = "returned"
        /\ ~IsNone(diff_result.node)
        /\ (local.size = remote.size /\ local.mtime = remote.mtime)
              => diff_result.node.uploaded


(***************************************************************************)
(* Paths (NFile.generate_path).  A node of the changeset is addressed by   *)
(* the positions of its ancestors' children lists; its path is the names   *)
(* from below the root down to it.  A remote path is the names below       *)
(* /<target>/data, with the ".symlink" suffix of a link's object apart.    *)
(***************************************************************************)
RECURSIVE NodeAt(_, _)
NodeAt(tree, at) ==
    IF at = <<>> THEN tree ELSE NodeAt(tree.children[Head(at)], Tail(at))

RECURSIVE generate_path(_, _)
generate_path(tree, at) ==
    IF at = <<>> THEN <<>>
    ELSE <<tree.children[Head(at)].name>> \o generate_path(tree.children[Head(at)], Tail(at))

RemotePath(names, symlink) == [path |-> names, symlink |-> symlink]

\* "if self.symlink_target:"
IsSymlink(n) == n.symlink_target # None

\* full_remote_path of upload, after ".symlink" was appended for a link
full_remote_path(base, tree, at) ==
    RemotePath(base \o generate_path(tree, at), IsSymlink(NodeAt(tree, at)))

\* the path NFolder.upload hands to file_create_folder: "/{target}/data/{path}"
create_folder_path(base, tree, at) == RemotePath(generate_path(tree, at), FALSE)

\* self.uploaded = True
RECURSIVE MarkUploaded(_, _)
MarkUploaded(tree, at) ==
    IF at = <<>> THEN [tree EXCEPT !.uploaded = TRUE]
    ELSE [tree EXCEPT !.children[Head(at)] = MarkUploaded(@, Tail(at))]

(***************************************************************************)
(* encodable (NFile.encodable, NFolder.encodable): a dict is a function of *)
(* its keys, so that a key may be absent.                                  *)
(***************************************************************************)
encodable_file(n) ==
    LET obj == [type |-> "NFile", name |-> n.name, uploaded |-> n.uploaded,
                stats |-> [uid |-> n.uid, gid |-> n.gid, mode |-> n.mode,
                           mtime |-> n.mtime, size |-> n.size]]
    IN  IF IsSymlink(n) THEN ("symlink_target" :> n.symlink_target) @@ obj ELSE obj

RECURSIVE encodable(_, _, _)
RECURSIVE encodable_children(_, _, _)

\* a listing that does not filter on the uploaded flag
encodable_children_All(nodes, max_recurse_depth, only_uploaded) ==
    [k \in 1..Len(nodes) |-> encodable(nodes[k], max_recurse_depth, only_uploaded)]

encodable_children(nodes, max_recurse_depth, only_uploaded) ==
    IF nodes = <<>> THEN <<>>
    ELSE (IF Head(nodes).uploaded \/ ~only_uploaded
          THEN <<encodable(Head(nodes), max_recurse_depth, only_uploaded)>>
          ELSE <<>>)
         \o encodable_children(Tail(nodes), max_recurse_depth, only_uploaded)

encodable(n, max_recurse_depth, only_uploaded) ==
    IF ~IsFolder(n) THEN encodable_file(n)
    ELSE LET d == [encodable_file(n) EXCEPT !.type = "NFolder"]
         IN  IF max_recurse_depth # 0
             THEN ("children" :> encodable_children(n.children, max_recurse_depth - 1,
                                                    only_uploaded)) @@ d
             ELSE d

(***************************************************************************)
(* The remote store, as the client calls of upload see it.  An object is   *)
(* a file or a directory at a remote path; the metadata object of a folder *)
(* is kept apart, by the folder's path.                                    *)
(***************************************************************************)
IsPrefix(p, q) == Len(p) <= Len(q) /\ SubSeq(q, 1, Len(p)) = p

ObjectsAt(objects, rp) == { o \in objects : o.path = rp.path /\ o.symlink = rp.symlink }

\* an object below a directory's path
Below(rp, o) == ~rp.symlink /\ IsPrefix(rp.path, o.path) /\ (o.path # rp.path \/ o.symlink)

PutObject(store, rp, is_dir) ==
    [store EXCEPT !.objects = (@ \ ObjectsAt(@, rp))
                        \cup { [path |-> rp.path, symlink |-> rp.symlink, is_dir |-> is_dir] }]

DeleteObject(store, rp) ==
    [objects |-> { o \in store.objects : o \notin ObjectsAt(store.objects, rp) /\ ~Below(rp, o) },
     index |-> [q \in { q \in DOMAIN store.index : rp.symlink \/ ~IsPrefix(rp.path, q) }
                    |-> store.index[q]]]

PutIndex(store, folder_path, body) ==
    [store EXCEPT !.index = (folder_path :> body) @@ @]

RECURSIVE Prefixes(_)
Prefixes(p) == IF p = <<>> THEN { <<>> } ELSE { p } \cup Prefixes(SubSeq(p, 1, Len(p) - 1))

\* the objects and metadata objects of the nodes of a remote tree
RECURSIVE ObjectsOf(_, _)
ObjectsOf(path, nodes) ==
    IF nodes = <<>> THEN {}
    ELSE LET n == Head(nodes)
             here == Append(path, n.name)
         IN  { [path |-> here, symlink |-> IsSymlink(n), is_dir |-> IsFolder(n) /\ ~IsSymlink(n)] }
                \cup ObjectsOf(here, n.children) \cup ObjectsOf(path, Tail(nodes))

RECURSIVE FoldersOf(_, _)
FoldersOf(path, nodes) ==
    IF nodes = <<>> THEN {}
    ELSE LET n == Head(nodes)
             here == Append(path, n.name)
         IN  (IF IsFolder(n) /\ ~IsSymlink(n)
              THEN { [path |-> here, node |-> n] } \cup FoldersOf(here, n.children)
              ELSE {})
             \cup FoldersOf(path, Tail(nodes))

\* the store that the remote tree was read from: backup has created the
\* folders of the target, and every folder of the tree has its metadata object
StoreOf(base, tree) ==
    LET folders == { [path |-> base, node |-> tree] } \cup FoldersOf(base, tree.children)
    IN  [objects |-> { [path |-> q, symlink |-> FALSE, is_dir |-> TRUE] : q \in Prefixes(base) }
                        \cup ObjectsOf(base, tree.children),
         index |-> [q \in { f.path : f \in folders } |->
                        encodable((CHOOSE f \in folders : f.path = q).node, 1, TRUE)]]

(***************************************************************************)
(* The backup command after the two trees are built: diff_trees, then      *)
(* upload over the changeset.  A call of upload is a frame of the stack;   *)
(* every client call either returns or raises, and upload catches what is  *)
(* raised.                                                                 *)
(***************************************************************************)
CHUNKED_SIZE_LIMIT == 1024 * 1024 * 100

Frame(at, max_recurse_depth) ==
    [node |-> at, pc |-> "start", max_recurse_depth |-> max_recurse_depth,
     next_child |-> 1, offset |-> 0]

Top == stack[Len(stack)]

Self == NodeAt(nodes_to_upload, Top.node)

Running(type, pc) ==
    /\ phase = "upload"
    /\ stack # <<>>
    /\ IF type = "NFile" THEN ~IsFolder(Self) ELSE IsFolder(Self)
    /\ Top.pc = pc

Call(op, rp, result) == [op |-> op, node |-> Top.node, path |-> rp, result |-> result]

\* the results a client call can have besides those the store decides
Errors == IF failures < MaxFailures THEN { "error" } ELSE {}

Failed(result) == failures' = IF result = "error" THEN failures + 1 ELSE failures

\* upload returns to its caller
Return(calls) ==
    /\ stack' = SubSeq(stack, 1, Len(stack) - 1)
    /\ log' = log \o calls \o <<[op |-> "return", node |-> Top.node]>>
    /\ phase' = IF Len(stack) = 1 THEN "done" ELSE phase

Goto(pc, calls) ==
    /\ stack' = [stack EXCEPT ![Len(stack)].pc = pc]
    /\ log' = log \o calls
    /\ phase' = phase

\* a call, then "pc" when it returned and the except clause when it raised
After(call, pc) == Goto(IF call.result = "error" THEN "raised" ELSE pc, <<call>>)

\* dropbox_client.metadata: 404 leaves meta = {}
metadata(rp) ==
    IF ObjectsAt(dropbox.objects, rp) = {} THEN [result |-> "404", meta |-> <<>>]
    ELSE [result |-> "ok",
          meta |-> [is_dir |-> (CHOOSE o \in ObjectsAt(dropbox.objects, rp) : TRUE).is_dir]]

Backup_Diff ==
    /\ phase = "start"
    /\ diff_result' = diff_trees(local, remote, max_depth)
    /\ nodes_to_upload' = diff_result'.node
    /\ IF diff_result'.status = "returned"
       THEN /\ phase' = "upload"
            /\ stack' = <<Frame(<<>>, -1)>>
            /\ log' = <<[op |-> "upload", node |-> <<>>]>>
       ELSE /\ phase' = "crashed"
            /\ UNCHANGED <<stack, log>>
    /\ UNCHANGED <<local, remote, max_depth, target_base, overwrite_mode, dropbox, failures,
                   disk>>

\* what the try statement around the body of upload does with an exception:
\* "except Exception" in NFile.upload and in NFolder.upload
except_clause_FilesPropagate(n) == IF IsFolder(n) THEN "caught" ELSE "propagates"

except_clause(n) == "caught"

\* an exception raised in the body of upload
Upload_Except ==
    /\ phase = "upload"
    /\ stack # <<>>
    /\ Top.pc = "raised"
    /\ IF except_clause(Self) = "caught"
       THEN Return(<<[op |-> "except", node |-> Top.node]>>)
       ELSE /\ log' = Append(log, [op |-> "raise", node |-> Top.node])
            /\ IF Len(stack) = 1
               THEN stack' = <<>> /\ phase' = "crashed"
               ELSE /\ stack' = [SubSeq(stack, 1, Len(stack) - 1)
                                    EXCEPT ![Len(stack) - 1].pc = "raised"]
                    /\ phase' = phase
    /\ UNCHANGED <<diff_vars, disk, target_base, overwrite_mode, nodes_to_upload, dropbox, failures>>

(******************************* NFile.upload ******************************)
\* "if self.size < self.CHUNKED_SIZE_LIMIT"
single_put_AtLimit(n) == n.size <= CHUNKED_SIZE_LIMIT

single_put(n) == n.size < CHUNKED_SIZE_LIMIT

File_Skip ==
    /\ Running("NFile", "start")
    /\ Self.uploaded
    /\ Return(<<>>)
    /\ UNCHANGED <<diff_vars, disk, target_base, overwrite_mode, nodes_to_upload, dropbox, failures>>

File_Probe ==
    /\ Running("NFile", "start")
    /\ ~Self.uploaded
    /\ LET rp == full_remote_path(target_base, nodes_to_upload, Top.node)
           m == metadata(rp)
       IN  \E result \in { m.result } \cup Errors :
             /\ Failed(result)
             /\ After(Call("metadata", rp, result),
                      IF ~overwrite_mode /\ "is_dir" \in DOMAIN m.meta /\ m.meta.is_dir = TRUE
                      THEN "delete" ELSE "put")
    /\ UNCHANGED <<diff_vars, disk, target_base, overwrite_mode, nodes_to_upload, dropbox>>

File_Delete ==
    /\ Running("NFile", "delete")
    /\ LET rp == full_remote_path(target_base, nodes_to_upload, Top.node)
       IN  \E result \in { "ok" } \cup Errors :
             /\ Failed(result)
             /\ After(Call("file_delete", rp, result), "put")
             /\ dropbox' = IF result = "error" THEN dropbox ELSE DeleteObject(dropbox, rp)
    /\ UNCHANGED <<diff_vars, disk, target_base, overwrite_mode, nodes_to_upload>>

\* the put of a link's target, or the single put of a file below the limit
File_Put ==
    /\ Running("NFile", "put")
    /\ IsSymlink(Self) \/ single_put(Self)
    /\ LET rp == full_remote_path(target_base, nodes_to_upload, Top.node)
       IN  \E result \in { "ok" } \cup Errors :
             /\ Failed(result)
             /\ IF result = "error"
                THEN After(Call("put_file", rp, result), "raised")
                        /\ UNCHANGED <<dropbox, nodes_to_upload>>
                ELSE /\ Return(<<Call("put_file", rp, result)>>)
                     /\ dropbox' = PutObject(dropbox, rp, FALSE)
                     /\ nodes_to_upload' = MarkUploaded(nodes_to_upload, Top.node)
    /\ UNCHANGED <<diff_vars, disk, target_base, overwrite_mode>>

\* the length the source file has when it is read: self.size was recorded
\* when the tree was built, and disk holds the files that are shorter by now
SourceLength(at) ==
    LET here == { o \in disk : o.path = generate_path(nodes_to_upload, at) }
    IN  IF here = {} THEN NodeAt(nodes_to_upload, at).size
        ELSE (CHOOSE o \in here : TRUE).body

\* uploader.upload_chunked(): it raises, or the offset of the session advances
File_Chunk ==
    /\ Running("NFile", "put")
    /\ ~IsSymlink(Self) /\ ~single_put(Self)
    /\ Top.offset < Self.size
    /\ SourceLength(Top.node) >= Self.size
    /\ LET rp == full_remote_path(target_base, nodes_to_upload, Top.node)
       IN  \/ /\ failures < MaxFailures
              /\ Failed("error")
              /\ After(Call("upload_chunked", rp, "error"), "raised")
           \/ \E offset \in { CHUNKED_SIZE_LIMIT, Self.size } :
                /\ offset > Top.offset
                /\ stack' = [stack EXCEPT ![Len(stack)].offset = offset]
                /\ log' = Append(log, Call("upload_chunked", rp, "ok") @@ ("offset" :> offset))
                /\ phase' = phase
                /\ Failed("ok")
    /\ UNCHANGED <<diff_vars, disk, target_base, overwrite_mode, nodes_to_upload, dropbox>>

File_Finish ==
    /\ Running("NFile", "put")
    /\ ~IsSymlink(Self) /\ ~single_put(Self)
    /\ ~(Top.offset < Self.size)
    /\ LET rp == full_remote_path(target_base, nodes_to_upload, Top.node)
       IN  \E result \in { "ok" } \cup Errors :
             /\ Failed(result)
             /\ IF result = "error"
                THEN After(Call("finish", rp, result) @@ ("offset" :> Top.offset), "raised")
                        /\ UNCHANGED <<dropbox, nodes_to_upload>>
                ELSE /\ Return(<<Call("finish", rp, result) @@ ("offset" :> Top.offset)>>)
                     /\ dropbox' = PutObject(dropbox, rp, FALSE)
                     /\ nodes_to_upload' = MarkUploaded(nodes_to_upload, Top.node)
    /\ UNCHANGED <<diff_vars, disk, target_base, overwrite_mode>>

(****************************** NFolder.upload *****************************)
\* a walk that creates no directory
AfterProbe_NoCreate(n) == IF IsSymlink(n) THEN "symlink" ELSE "children"

\* a walk that does not look at the uploaded flag of a folder
AfterProbe_AlwaysCreate(n) == IF IsSymlink(n) THEN "symlink" ELSE "create"

\* where upload goes once the remote path is probed and cleared
AfterProbe(n) ==
    IF IsSymlink(n) THEN "symlink" ELSE IF ~n.uploaded THEN "create" ELSE "children"

Folder_Probe ==
    /\ Running("NFolder", "start")
    /\ LET rp == full_remote_path(target_base, nodes_to_upload, Top.node)
           m == metadata(rp)
       IN  \E result \in { m.result } \cup Errors :
             /\ Failed(result)
             /\ After(Call("metadata", rp, result),
                      IF ~IsSymlink(Self) /\ "is_dir" \in DOMAIN m.meta /\ m.meta.is_dir # TRUE
                      THEN "delete" ELSE AfterProbe(Self))
    /\ UNCHANGED <<diff_vars, disk, target_base, overwrite_mode, nodes_to_upload, dropbox>>

Folder_Delete ==
    /\ Running("NFolder", "delete")
    /\ LET rp == full_remote_path(target_base, nodes_to_upload, Top.node)
       IN  \E result \in { "ok" } \cup Errors :
             /\ Failed(result)
             /\ After(Call("file_delete", rp, result), AfterProbe(Self))
             /\ dropbox' = IF result = "error" THEN dropbox ELSE DeleteObject(dropbox, rp)
    /\ UNCHANGED <<diff_vars, disk, target_base, overwrite_mode, nodes_to_upload>>

Folder_PutSymlink ==
    /\ Running("NFolder", "symlink")
    /\ LET rp == full_remote_path(target_base, nodes_to_upload, Top.node)
       IN  IF Self.uploaded
           THEN Return(<<>>) /\ UNCHANGED <<dropbox, nodes_to_upload, failures>>
           ELSE \E result \in { "ok" } \cup Errors :
                  /\ Failed(result)
                  /\ IF result = "error"
                     THEN After(Call("put_file", rp, result), "raised")
                            /\ UNCHANGED <<dropbox, nodes_to_upload>>
                     ELSE /\ Return(<<Call("put_file", rp, result)>>)
                          /\ dropbox' = PutObject(dropbox, rp, FALSE)
                          /\ nodes_to_upload' = MarkUploaded(nodes_to_upload, Top.node)
    /\ UNCHANGED <<diff_vars, disk, target_base, overwrite_mode>>

\* file_create_folder: 403 when something is at the path already
Folder_Create ==
    /\ Running("NFolder", "create")
    /\ LET rp == create_folder_path(target_base, nodes_to_upload, Top.node)
           exists == ObjectsAt(dropbox.objects, rp) # {}
       IN  \E result \in { IF exists THEN "403" ELSE "ok" } \cup Errors :
             /\ Failed(result)
             /\ After(Call("file_create_folder", rp, result), "children")
             /\ dropbox' = IF result = "ok" THEN PutObject(dropbox, rp, TRUE) ELSE dropbox
             /\ nodes_to_upload' = IF result = "error" THEN nodes_to_upload
                                   ELSE MarkUploaded(nodes_to_upload, Top.node)
    /\ UNCHANGED <<diff_vars, disk, target_base, overwrite_mode>>

\* c.upload(...) for the next child of the loop
Folder_Child ==
    /\ Running("NFolder", "children")
    /\ Top.max_recurse_depth # 0
    /\ Top.next_child <= Len(Self.children)
    /\ LET child == Append(Top.node, Top.next_child)
       IN  /\ stack' = Append([stack EXCEPT ![Len(stack)].next_child = @ + 1],
                              Frame(child, Top.max_recurse_depth - 1))
           /\ log' = Append(log, [op |-> "upload", node |-> child])
    /\ UNCHANGED <<diff_vars, disk, phase, target_base, overwrite_mode, nodes_to_upload, dropbox,
                   failures>>

\* the folder's own metadata object, once the loop over the children is over
Folder_WriteMeta ==
    /\ Running("NFolder", "children")
    /\ Top.max_recurse_depth = 0 \/ Top.next_child > Len(Self.children)
    /\ LET rp == full_remote_path(target_base, nodes_to_upload, Top.node)
           body == encodable(Self, 1, TRUE)
       IN  \E result \in { "ok" } \cup Errors :
             /\ Failed(result)
             /\ IF result = "error"
                THEN After(Call("put_metadata", rp, result) @@ ("body" :> body), "raised")
                        /\ UNCHANGED dropbox
                ELSE /\ Return(<<Call("put_metadata", rp, result) @@ ("body" :> body)>>)
                     /\ dropbox' = PutIndex(dropbox, rp.path, body)
    /\ UNCHANGED <<diff_vars, disk, target_base, overwrite_mode, nodes_to_upload>>

(***************************************************************************)
(* restore (NFile.restore, NFolder.restore): the walk over the tree that    *)
(* walk_remote_tree_r built, which is the variable remote.  The local files *)
(* are records [path, kind, body]; a path is the names below local_base.    *)
(***************************************************************************)
RSelf == NodeAt(remote, Top.node)

Restoring(type, pc) ==
    /\ phase = "restore"
    /\ stack # <<>>
    /\ IF type = "NFile" THEN ~IsFolder(RSelf) ELSE IsFolder(RSelf)
    /\ Top.pc = pc

\* os.path.join(local_base, self.generate_path())
full_local_path(at) == generate_path(remote, at)

\* os.path.exists
Exists(path) == \E o \in disk : o.path = path

IsDir(path) == \E o \in disk : o.path = path /\ o.kind = "dir"

InDir(path) == path = <<>> \/ IsDir(SubSeq(path, 1, Len(path) - 1))

WriteDisk(path, kind, body) ==
    { o \in disk : o.path # path } \cup { [path |-> path, kind |-> kind, body |-> body] }

LocalCall(op, result) ==
    [op |-> op, node |-> Top.node, path |-> full_local_path(Top.node), result |-> result]

\* "if self.mode:", "if self.uid and self.gid:", "if self.mtime:"
Set(v) == v # None /\ v # 0

Attrs(n) ==
    (IF Set(n.mode) THEN { "chmod" } ELSE {})
        \cup (IF Set(n.uid) /\ Set(n.gid) THEN { "chown" } ELSE {})
        \cup (IF Set(n.mtime) THEN { "utime" } ELSE {})

Restore_Start ==
    /\ phase = "restore_start"
    /\ phase' = "restore"
    /\ stack' = <<Frame(<<>>, -1)>>
    /\ log' = <<[op |-> "restore", node |-> <<>>]>>
    /\ UNCHANGED <<diff_vars, target_base, overwrite_mode, nodes_to_upload, dropbox, failures,
                   disk>>

\* an exception raised in the body of restore
Restore_Except ==
    /\ phase = "restore"
    /\ stack # <<>>
    /\ Top.pc = "raised"
    /\ IF except_clause(RSelf) = "caught"
       THEN /\ stack' = SubSeq(stack, 1, Len(stack) - 1)
            /\ log' = log \o <<[op |-> "except", node |-> Top.node],
                               [op |-> "return", node |-> Top.node]>>
            /\ phase' = IF Len(stack) = 1 THEN "restored" ELSE phase
       ELSE /\ log' = Append(log, [op |-> "raise", node |-> Top.node])
            /\ IF Len(stack) = 1
               THEN stack' = <<>> /\ phase' = "crashed"
               ELSE /\ stack' = [SubSeq(stack, 1, Len(stack) - 1)
                                    EXCEPT ![Len(stack) - 1].pc = "raised"]
                    /\ phase' = phase
    /\ UNCHANGED <<diff_vars, target_base, overwrite_mode, nodes_to_upload, dropbox, failures,
                   disk>>

\* restore returns to its caller
RestoreReturn(calls) ==
    /\ stack' = SubSeq(stack, 1, Len(stack) - 1)
    /\ log' = log \o calls \o <<[op |-> "return", node |-> Top.node]>>
    /\ phase' = IF Len(stack) = 1 THEN "restored" ELSE phase

\* a guard that never leaves a node out
may_restore_Always(exists, overwrite) == TRUE

\* "if not os.path.exists(full_local_path) or overwrite_mode:"
may_restore(exists, overwrite) == ~exists \/ overwrite

Restore_Check ==
    /\ phase = "restore"
    /\ stack # <<>>
    /\ Top.pc = "start"
    /\ IF ~may_restore(Exists(full_local_path(Top.node)), overwrite_mode)
       THEN RestoreReturn(<<[op |-> "skip", node |-> Top.node]>>)
       ELSE Goto(IF IsSymlink(RSelf) THEN "symlink"
                 ELSE IF IsFolder(RSelf) THEN "mkdir" ELSE "get", <<>>)
    /\ UNCHANGED <<diff_vars, target_base, overwrite_mode, nodes_to_upload, dropbox, failures,
                   disk>>

\* os.symlink: it raises when the path exists or its directory is missing
Restore_Symlink ==
    /\ phase = "restore"
    /\ stack # <<>>
    /\ Top.pc = "symlink"
    /\ LET path == full_local_path(Top.node)
           can == ~Exists(path) /\ InDir(path)
       IN  \E result \in (IF can THEN { "ok" } ELSE { "error" }) \cup Errors :
             /\ Failed(IF can THEN result ELSE "ok")
             /\ IF result = "error"
                THEN After(LocalCall("symlink", result), "raised") /\ UNCHANGED disk
                ELSE /\ RestoreReturn(<<LocalCall("symlink", result)>>)
                     /\ disk' = WriteDisk(path, "link", RSelf.symlink_target)
    /\ UNCHANGED <<diff_vars, target_base, overwrite_mode, nodes_to_upload, dropbox>>

\* open(full_local_path, "wb"), then get_file and the write of what it read
File_Restore_Get ==
    /\ Restoring("NFile", "get")
    /\ LET path == full_local_path(Top.node)
           rp == full_remote_path(target_base, remote, Top.node)
       IN  IF ~InDir(path) \/ IsDir(path)
           THEN After(LocalCall("open", "error"), "raised") /\ UNCHANGED <<disk, failures>>
           ELSE \E result \in { IF ObjectsAt(dropbox.objects, rp) = {} THEN "404" ELSE "ok" }
                                \cup Errors :
                  /\ Failed(result)
                  /\ stack' = [stack EXCEPT ![Len(stack)].pc =
                                   IF result = "ok" THEN "attrs" ELSE "raised"]
                  /\ log' = log \o <<LocalCall("open", "ok"), Call("get_file", rp, result)>>
                  /\ phase' = phase
                  /\ disk' = WriteDisk(path, "file", IF result = "ok" THEN "body" ELSE "")
    /\ UNCHANGED <<diff_vars, target_base, overwrite_mode, nodes_to_upload, dropbox>>

\* os.chmod, os.chown, os.utime of a restored file
File_Restore_Attrs ==
    /\ Restoring("NFile", "attrs")
    /\ \E result \in { "ok" } \cup Errors :
         /\ Failed(result)
         /\ LET call == LocalCall("attrs", result) @@ ("applied" :> Attrs(RSelf))
            IN  IF result = "error" THEN After(call, "raised") ELSE RestoreReturn(<<call>>)
    /\ UNCHANGED <<diff_vars, target_base, overwrite_mode, nodes_to_upload, dropbox, disk>>

\* os.mkdir: errno 17 (the path exists) is ignored, another error is raised
Folder_Restore_Mkdir ==
    /\ Restoring("NFolder", "mkdir")
    /\ LET path == full_local_path(Top.node)
           outcome == IF Exists(path) THEN "17" ELSE IF InDir(path) THEN "ok" ELSE "error"
       IN  \E result \in { outcome } \cup Errors :
             /\ Failed(IF outcome = "error" THEN "ok" ELSE result)
             /\ After(LocalCall("mkdir", result), "attrs")
             /\ disk' = IF result = "ok" THEN WriteDisk(path, "dir", "") ELSE disk
    /\ UNCHANGED <<diff_vars, target_base, overwrite_mode, nodes_to_upload, dropbox>>

\* os.chmod, os.chown, os.utime of the directory, before its children
Folder_Restore_Attrs ==
    /\ Restoring("NFolder", "attrs")
    /\ \E result \in { "ok" } \cup Errors :
         /\ Failed(result)
         /\ After(LocalCall("attrs", result) @@ ("applied" :> Attrs(RSelf)), "children")
    /\ UNCHANGED <<diff_vars, target_base, overwrite_mode, nodes_to_upload, dropbox, disk>>

\* c.restore(...) for the next child of the loop
Folder_Restore_Child ==
    /\ Restoring("NFolder", "children")
    /\ Top.max_recurse_depth # 0
    /\ Top.next_child <= Len(RSelf.children)
    /\ LET child == Append(Top.node, Top.next_child)
       IN  /\ stack' = Append([stack EXCEPT ![Len(stack)].next_child = @ + 1],
                              Frame(child, Top.max_recurse_depth - 1))
           /\ log' = Append(log, [op |-> "restore", node |-> child])
    /\ UNCHANGED <<diff_vars, phase, target_base, overwrite_mode, nodes_to_upload, dropbox,
                   failures, disk>>

Folder_Restore_Return ==
    /\ Restoring("NFolder", "children")
    /\ Top.max_recurse_depth = 0 \/ Top.next_child > Len(RSelf.children)
    /\ RestoreReturn(<<>>)
    /\ UNCHANGED <<diff_vars, target_base, overwrite_mode, nodes_to_upload, dropbox, failures,
                   disk>>

(***************************************************************************)
(* The inputs of a command.  backup: the two trees, the target's folder    *)
(* and the remote store that the remote tree was read from.  restore: the  *)
(* tree read from the remote store, and what the destination holds.        *)
(***************************************************************************)
\* the target "<name>:/": upload joins target_base "/" and the path
TargetBases == { <<>> }

BigStats ==
    { [Stat0 EXCEPT !.size = CHUNKED_SIZE_LIMIT - 1],
      [Stat0 EXCEPT !.size = CHUNKED_SIZE_LIMIT],
      [Stat0 EXCEPT !.size = CHUNKED_SIZE_LIMIT + 1] }

UploadLocalTrees ==
    [budget \in 0..MaxUploadNodes |-> Trees("local", {Stat0} \cup BigStats, budget)]

UploadRemoteTrees ==
    [budget \in 0..MaxUploadNodes |-> Trees("remote", {Stat0, SizeChanged}, budget)]

\* the destination directory exists; one name in it may be taken already
Destination == [path |-> <<>>, kind |-> "dir", body |-> ""]

Disks ==
    { { Destination } }
        \cup { { Destination, [path |-> <<name>>, kind |-> kind, body |-> ""] } :
                 name \in 1..MaxName, kind \in { "file", "dir" } }

InitBackup ==
    /\ local \in UploadLocalTrees[MaxUploadNodes]
    /\ remote \in UploadRemoteTrees[MaxUploadNodes - Size(local)]
    /\ phase = "start"
    /\ disk = {}

InitRestore ==
    /\ local = NRootFolder(<<>>)
    /\ remote \in UploadRemoteTrees[MaxUploadNodes]
    /\ phase = "restore_start"
    /\ disk \in Disks

Init ==
    /\ InitBackup \/ InitRestore
    /\ max_depth = -1
    /\ diff_result = Raised("none")
    /\ target_base \in TargetBases
    /\ overwrite_mode \in BOOLEAN
    /\ nodes_to_upload = NoNode
    /\ stack = <<>>
    /\ dropbox = StoreOf(target_base, remote)
    /\ log = <<>>
    /\ failures = 0

Next ==
    \/ Backup_Diff
    \/ Upload_Except
    \/ File_Skip
    \/ File_Probe
    \/ File_Delete
    \/ File_Put
    \/ File_Chunk
    \/ File_Finish
    \/ Folder_Probe
    \/ Folder_Delete
    \/ Folder_PutSymlink
    \/ Folder_Create
    \/ Folder_Child
    \/ Folder_WriteMeta
    \/ Restore_Start
    \/ Restore_Except
    \/ Restore_Check
    \/ Restore_Symlink
    \/ File_Restore_Get
    \/ File_Restore_Attrs
    \/ Folder_Restore_Mkdir
    \/ Folder_Restore_Attrs
    \/ Folder_Restore_Child
    \/ Folder_Restore_Return

Spec == Init /\ [][Next]_vars

(***************************************************************************)
(* Properties of the upload walk.  They are stated over the calls the walk *)
(* has made so far (log), the changeset as diff handed it to upload        *)
(* (diff_result.node), the changeset as the walk has marked it             *)
(* (nodes_to_upload) and the remote store (dropbox).                       *)
(***************************************************************************)
RECURSIVE Paths(_)
Paths(tree) ==
    { <<>> } \cup UNION { { <<k>> \o at : at \in Paths(tree.children[k]) } :
                          k \in 1..Len(tree.children) }

Walking == phase \in { "upload", "done" }

Handed(at) == NodeAt(diff_result.node, at)

Current(at) == NodeAt(nodes_to_upload, at)

Parent(at) == SubSeq(at, 1, Len(at) - 1)

Under(at, d) == Len(d) > Len(at) /\ SubSeq(d, 1, Len(at)) = at

Calls(at, ops) == { i \in 1..Len(log) : log[i].node = at /\ log[i].op \in ops }

RemoteOps ==
    { "metadata", "file_delete", "put_file", "upload_chunked", "finish",
      "file_create_folder", "put_metadata", "get_file" }

LocalOps == { "open", "mkdir", "symlink", "attrs" }

\* the calls of a node that raised into its upload or restore
FailedCalls(at) ==
    { i \in Calls(at, RemoteOps \cup LocalOps) :
        log[i].result = "error" \/ (log[i].op = "get_file" /\ log[i].result = "404") }

Attempted(at) == Calls(at, { "upload", "restore" }) # {}

Over(at) == Calls(at, { "return" }) # {}

MetaWrites(at) == Calls(at, { "put_metadata" })

PlainFolder(n) == IsFolder(n) /\ ~IsSymlink(n)

RECURSIVE SameTree(_, _)
SameTree(a, b) ==
    /\ a.type = b.type /\ a.name = b.name /\ FiveEqual(a, b)
    /\ a.symlink_target = b.symlink_target
    /\ Len(a.children) = Len(b.children)
    /\ ChildNames(a) = ChildNames(b)
    /\ \A name \in ChildNames(a) : SameTree(Child(a, name), Child(b, name))

\* the calls that create, replace or delete an object of the data tree
TransferOps == { "put_file", "upload_chunked", "finish", "file_create_folder", "file_delete" }

\* C3: diffing a tree against a remote tree of the same shape, names and
\* stats yields a changeset whose every node (root, folders, files) has
\* uploaded = true, and the upload pass over it issues no transfer
\* operation (the rewrite of the folders' metadata objects left aside).
C3_IdenticalTrees ==
    (Walking /\ SameTree(local, remote)) =>
        /\ \A at \in Paths(diff_result.node) : Handed(at).uploaded
        /\ \A i \in 1..Len(log) : log[i].op \notin TransferOps

\* the steps of NFolder.upload and NFolder.restore that come before the loop
\* over the children
OwnSteps == { "metadata", "file_delete", "file_create_folder", "mkdir", "attrs" }

OwnStepFailed(at) == \E i \in FailedCalls(at) : log[i].op \in OwnSteps

Walked == IF phase \in { "restore", "restored" } THEN remote ELSE nodes_to_upload

\* the call on the folder got as far as its loop over the children
ReachedLoop(at) ==
    /\ Attempted(at)
    /\ PlainFolder(NodeAt(Walked, at))
    /\ ~OwnStepFailed(at)
    /\ Calls(at, { "skip" }) = {}

\* every call returned, and a node is left out only below a folder that did
\* not get to its loop
Isolated ==
    /\ phase # "crashed"
    /\ phase \in { "done", "restored" } =>
          \A at \in Paths(Walked) :
              /\ Attempted(at) => Over(at)
              /\ at = <<>> => Attempted(at)
              /\ at # <<>> => (Attempted(at) <=> ReachedLoop(Parent(at)))

\* C5 (as amended): neither upload nor restore raises to its caller; when
\* an operation on a node fails that node is skipped, and with it, for a
\* Folder failing in its own steps, its subtree; every sibling of the failed
\* node and every node outside its subtree is still attempted; a File whose
\* upload failed keeps uploaded = false, and so does a Folder whose upload
\* failed before its remote directory was established, but a Folder whose
\* failure is the write of its metadata object stays marked uploaded = true.
C5_FailureIsolation ==
    /\ Isolated
    /\ phase = "done" =>
          \A at \in Paths(nodes_to_upload) :
              (FailedCalls(at) # {} /\ ~Handed(at).uploaded) =>
                  (Current(at).uploaded <=>
                      /\ PlainFolder(Current(at))
                      /\ \A i \in FailedCalls(at) : log[i].op = "put_metadata")

\* the put of a file failed and the file after it was put all the same
C5_Witness ==
    /\ phase = "done"
    /\ \E at \in Paths(nodes_to_upload) :
          /\ Len(at) = 1
          /\ \E i \in FailedCalls(at) : log[i].op = "put_file"
          /\ ~Current(at).uploaded
          /\ \E k \in Positions(nodes_to_upload) :
                /\ k > at[1]
                /\ ~Handed(<<k>>).uploaded
                /\ Current(<<k>>).uploaded

\* C5 as the specification states it: ... and a node whose upload failed
\* keeps uploaded = false.
C5_Original ==
    /\ Isolated
    /\ phase = "done" =>
          \A at \in Paths(nodes_to_upload) :
              (FailedCalls(at) # {} /\ ~Handed(at).uploaded) => ~Current(at).uploaded

Listed(i) == { log[i].body.children[k].name : k \in 1..Len(log[i].body.children) }

UploadedChildren(n) == SelectSeq(n.children, LAMBDA c : c.uploaded)

\* C6 (as amended): a folder's metadata object is written only after the
\* upload attempt of every one of its children (and of everything below
\* them) has returned; the written object lists, one level deep and in
\* order, exactly the children whose uploaded flag is true at that moment;
\* a child that was handed in not uploaded and whose upload failed is not
\* listed, unless it is a Folder whose failure is the write of its own
\* metadata object (its directory was established, its flag is true, and
\* it is listed).
C6_MetadataAfterChildren ==
    Walking =>
        \A at \in Paths(nodes_to_upload) : \A i \in MetaWrites(at) :
            LET n == Current(at)
                body == log[i].body
                up == UploadedChildren(n)
            IN  /\ \A j \in 1..Len(log) : Under(at, log[j].node) => j < i
                /\ \A k \in Positions(n) :
                      \E j \in Calls(Append(at, k), { "return" }) : j < i
                /\ Len(body.children) = Len(up)
                /\ \A k \in 1..Len(up) :
                      /\ body.children[k].name = up[k].name
                      /\ body.children[k].uploaded
                      /\ "children" \notin DOMAIN body.children[k]
                /\ \A k \in Positions(n) :
                      LET c == Append(at, k)
                      IN  /\ (/\ FailedCalls(c) # {}
                              /\ ~Handed(c).uploaded
                              /\ \A j \in FailedCalls(c) : log[j].op # "put_metadata")
                                => n.children[k].name \notin Listed(i)
                          /\ (/\ IsFolder(n.children[k])
                              /\ \E j \in FailedCalls(c) : log[j].op = "put_metadata")
                                => n.children[k].name \in Listed(i)

\* a folder that failed to write its own metadata object is listed by its parent
C6_Witness ==
    /\ phase = "done"
    /\ \E at \in Paths(nodes_to_upload) : \E i \in MetaWrites(at) :
          /\ log[i].result = "ok"
          /\ \E k \in Positions(Current(at)) :
                /\ ~Handed(Append(at, k)).uploaded
                /\ \E j \in FailedCalls(Append(at, k)) : log[j].op = "put_metadata"
                /\ Current(at).children[k].uploaded
                /\ Current(at).children[k].name \in Listed(i)

\* C6 as the specification states it: ... and a child whose upload failed
\* in this run is not listed.
C6_Original ==
    Walking =>
        \A at \in Paths(nodes_to_upload) : \A i \in MetaWrites(at) :
            LET n == Current(at)
            IN  /\ \A k \in Positions(n) :
                      \E j \in Calls(Append(at, k), { "return" }) : j < i
                /\ Listed(i) = { n.children[k].name : k \in { k \in Positions(n) : n.children[k].uploaded } }
                /\ \A k \in Positions(n) :
                      FailedCalls(Append(at, k)) # {} => n.children[k].name \notin Listed(i)

Established(at, j) ==
    \/ Handed(at).uploaded
    \/ \E i \in Calls(at, { "file_create_folder" }) : i < j /\ log[i].result \in { "ok", "403" }

\* C7: no child of a non-symlink Folder is uploaded before the Folder's
\* remote directory was created, was reported as existing already (403), or
\* the Folder was handed in marked uploaded; when the creation fails with
\* another error no child of the folder is uploaded and its metadata object
\* is not written.
C7_CreateBeforeChildren ==
    Walking =>
        \A at \in Paths(nodes_to_upload) :
            PlainFolder(Current(at)) =>
                /\ \A k \in Positions(Current(at)) :
                      \A j \in Calls(Append(at, k), { "upload" }) : Established(at, j)
                /\ (\E i \in Calls(at, { "file_create_folder" }) : log[i].result = "error") =>
                      /\ \A k \in Positions(Current(at)) : ~Attempted(Append(at, k))
                      /\ MetaWrites(at) = {}
                      /\ ~Current(at).uploaded

\* a folder created in this run, one of whose children was put afterwards
C7_Witness ==
    /\ phase = "done"
    /\ \E at \in Paths(nodes_to_upload) :
          /\ PlainFolder(Current(at)) /\ ~Handed(at).uploaded
          /\ \E i \in Calls(at, { "file_create_folder" }) : log[i].result = "ok"
          /\ \E k \in Positions(Current(at)) :
                \E j \in Calls(Append(at, k), { "put_file" }) : log[j].result = "ok"

RemoteOnly(at) == \E k \in 1..Len(at) : Current(SubSeq(at, 1, k)).todelete

PathOf(at) == full_remote_path(target_base, nodes_to_upload, at)

\* C8: the upload pass never deletes the remote object of a node flagged
\* pending_deletion: for every remote-only node no delete (and no put or
\* create) is issued for its path, its remote object is what it was before
\* the pass, and every rewrite of its parent's metadata object lists it.
C8_NoDeletion ==
    Walking =>
        \A at \in Paths(nodes_to_upload) :
            RemoteOnly(at) =>
                /\ \A i \in 1..Len(log) :
                      log[i].op \in TransferOps => log[i].path # PathOf(at)
                /\ ObjectsAt(dropbox.objects, PathOf(at)) # {}
                /\ ObjectsAt(dropbox.objects, PathOf(at))
                      = ObjectsAt(StoreOf(target_base, remote).objects, PathOf(at))
                /\ \A i \in MetaWrites(Parent(at)) : Current(at).name \in Listed(i)

\* a flagged file next to a file that was put, both listed by the rewritten index
C8_Witness ==
    /\ phase = "done"
    /\ \E at \in Paths(nodes_to_upload) :
          /\ at # <<>> /\ Current(at).todelete /\ Over(at)
          /\ \E i \in MetaWrites(Parent(at)) :
                /\ log[i].result = "ok"
                /\ Current(at).name \in Listed(i)
                /\ Cardinality(Listed(i)) > 1

C10_PathBySize ==
    Walking =>
        \A at \in Paths(nodes_to_upload) :
            LET n == Current(at)
                before_put == { i \in FailedCalls(at) : log[i].op \in { "metadata", "file_delete" } }
            IN  (~IsFolder(n) /\ ~IsSymlink(n) /\ ~Handed(at).uploaded) =>
                    /\ n.size < CHUNKED_SIZE_LIMIT =>
                          /\ Calls(at, { "upload_chunked", "finish" }) = {}
                          /\ Cardinality(Calls(at, { "put_file" })) <= 1
                          /\ (Over(at) /\ before_put = {}) =>
                                Cardinality(Calls(at, { "put_file" })) = 1
                    /\ n.size >= CHUNKED_SIZE_LIMIT =>
                          /\ Calls(at, { "put_file" }) = {}
                          /\ Cardinality(Calls(at, { "finish" })) <= 1
                          /\ \A i \in Calls(at, { "finish" }) :
                                /\ log[i].offset >= n.size
                                /\ \E j \in Calls(at, { "upload_chunked" }) :
                                      j < i /\ log[j].result = "ok" /\ log[j].offset = log[i].offset
                          /\ (Over(at) /\ FailedCalls(at) = {}) => Calls(at, { "finish" }) # {}
                    /\ n.uploaded =>
                          /\ FailedCalls(at) = {}
                          /\ \E i \in Calls(at, { "put_file", "finish" }) : log[i].result = "ok"

\* a file one byte below the threshold put at once, and a file at the
\* threshold sent through a session
C10_Witness ==
    /\ phase = "done"
    /\ \E at \in Paths(nodes_to_upload) :
          /\ ~IsFolder(Current(at)) /\ Current(at).size = CHUNKED_SIZE_LIMIT - 1
          /\ Current(at).uploaded /\ Calls(at, { "put_file" }) # {}
    /\ \E at \in Paths(nodes_to_upload) :
          /\ ~IsFolder(Current(at)) /\ Current(at).size = CHUNKED_SIZE_LIMIT
          /\ Current(at).uploaded /\ Calls(at, { "finish" }) # {}

(***************************************************************************)
(* walk_remote_tree_r: the remote tree as the metadata objects record it.  *)
(* A child record is a JSON value: an object is a function of its keys, a  *)
(* value that is not an object is [json |-> its kind].                     *)
(***************************************************************************)
IsObject(c) == "json" \notin DOMAIN c

StatKeys == { "uid", "gid", "mode", "mtime", "size" }

\* NFile.__init__ can read child["name"] and the keys of child["stats"]
Constructible(c) ==
    /\ { "name", "stats" } \subseteq DOMAIN c
    /\ StatKeys \subseteq DOMAIN c.stats

\* the except clause of the loop evaluates '"name" in child', which raises
\* TypeError again when the record is null or a number
handler_raises(c) == ~IsObject(c) /\ c.json \in { "null", "number" }

\* "if 'symlink_target' in child: child_node.symlink_target = ..."
copy_symlink_target_Dropped(node, c) == node

copy_symlink_target(node, c) ==
    IF "symlink_target" \in DOMAIN c
    THEN [node EXCEPT !.symlink_target = c.symlink_target]
    ELSE node

\* get_file and json.load of a folder's metadata object, inside try/except
\* Exception: an absent object leaves remote_metadata = {}
remote_metadata_Required(store, path) ==
    IF path \in DOMAIN store.index
    THEN [found |-> TRUE, body |-> store.index[path]]
    ELSE [found |-> TRUE, body |-> [type |-> "NFolder"]]

remote_metadata(store, path) ==
    IF path \in DOMAIN store.index
    THEN [found |-> TRUE, body |-> store.index[path]]
    ELSE [found |-> FALSE]

Skipped == [status |-> "skipped", node |-> NoNode]

RECURSIVE walk_remote_tree_r(_, _, _, _)
RECURSIVE walk_child(_, _, _, _)
RECURSIVE walk_children(_, _, _, _)

\* one turn of "for child in remote_metadata['children']"
walk_child(store, path, c, max_recurse_depth) ==
    IF ~IsObject(c)
    THEN IF handler_raises(c) THEN Raised("TypeError") ELSE Skipped
    ELSE IF "type" \notin DOMAIN c THEN Skipped
    ELSE IF c.type = "NFile"
    THEN IF Constructible(c)
         THEN Returned(copy_symlink_target(Uploaded(NFile(c.name, c.stats)), c))
         ELSE Skipped
    ELSE IF c.type = "NFolder"
    THEN IF ~Constructible(c) THEN Skipped
         ELSE LET child_node == NFolder(c.name, c.stats, <<>>)
                  walked == IF max_recurse_depth # 0 /\ "symlink_target" \notin DOMAIN c
                            THEN walk_remote_tree_r(store, Append(path, c.name), child_node,
                                                    max_recurse_depth - 1)
                            ELSE Returned(child_node)
              IN  IF walked.status = "raised" THEN Skipped
                  ELSE Returned(copy_symlink_target(Uploaded(walked.node), c))
    ELSE Skipped

\* the loop: an exception that leaves a turn ends the loop and the call
walk_children(store, path, records, max_recurse_depth) ==
    IF records = <<>> THEN [status |-> "returned", nodes |-> <<>>]
    ELSE LET one == walk_child(store, path, Head(records), max_recurse_depth)
         IN  IF one.status = "raised" THEN [status |-> "raised", nodes |-> <<>>]
             ELSE LET rest == walk_children(store, path, Tail(records), max_recurse_depth)
                  IN  IF rest.status = "raised" THEN rest
                      ELSE [status |-> "returned",
                            nodes |-> (IF one.status = "returned" THEN <<one.node>> ELSE <<>>)
                                        \o rest.nodes]

walk_remote_tree_r(store, path, self, max_recurse_depth) ==
    IF IsSymlink(self) THEN Returned(self)
    ELSE LET meta == remote_metadata(store, path)
         IN  IF ~meta.found THEN Returned(self)
             ELSE IF "children" \notin DOMAIN meta.body THEN Raised("KeyError")
             ELSE LET kids == walk_children(store, path, meta.body.children,
                                            max_recurse_depth)
                  IN  IF kids.status = "raised" THEN Raised("TypeError")
                      ELSE Returned([self EXCEPT !.children = kids.nodes])

(***************************************************************************)
(* The index specification: a tree is serialized, its serialization is     *)
(* written as the metadata objects of a target, an object or a child       *)
(* record may be lost or damaged, and the remote tree is built from what   *)
(* is there and diffed against the tree.                                   *)
(***************************************************************************)
EncodeDepths == { -1, 0, 1, 2 }

WriteDepths == { -1, 1 }

WalkDepths == { -1, 0, 1 }

\* trees whose nodes are uploaded, not uploaded, or one of them uploaded
IndexTrees ==
    LocalTrees[MaxNodes] \cup RemoteTrees[MaxNodes]
        \cup UNION { { MarkUploaded(t, at) : at \in Paths(t) \ { <<>> } } :
                     t \in LocalTrees[MaxNodes] }

\* the metadata object of every folder of the tree that is not a link,
\* each the serialization of that folder
IndexOf(base, tree, max_recurse_depth, only_uploaded) ==
    LET folders == { [path |-> base, node |-> tree] } \cup FoldersOf(base, tree.children)
    IN  [objects |-> StoreOf(base, tree).objects,
         index |-> [q \in { f.path : f \in folders } |->
                        encodable((CHOOSE f \in folders : f.path = q).node,
                                  max_recurse_depth, only_uploaded)]]

Without(c, key) == [k \in DOMAIN c \ { key } |-> c[k]]

\* what a damaged child record can read as
Corrupted(c) ==
    { [json |-> "null"], [json |-> "number"], [json |-> "string"],
      Without(c, "type"), Without(c, "name"), Without(c, "stats"),
      [c EXCEPT !.type = "NLink"], [c EXCEPT !.stats = [json |-> "null"]],
      [c EXCEPT !.stats = Without(c.stats, "mtime")] }

InitIndex ==
    /\ local \in IndexTrees
    /\ remote = NoNode
    /\ max_depth = -1
    /\ phase = "index_start"
    /\ diff_result = Raised("none")
    /\ target_base \in TargetBases
    /\ overwrite_mode = TRUE
    /\ nodes_to_upload = NoNode
    /\ stack = <<>>
    /\ dropbox = [objects |-> {}, index |-> <<>>]
    /\ log = <<>>
    /\ failures = 0
    /\ disk = {}

\* encodable(max_recurse_depth, only_uploaded) of the tree
Serialize ==
    /\ phase = "index_start"
    /\ \E d \in EncodeDepths, only_uploaded \in BOOLEAN :
            log' = <<[op |-> "encodable", max_recurse_depth |-> d,
                      only_uploaded |-> only_uploaded,
                      result |-> encodable(local, d, only_uploaded)]>>
    /\ phase' = "serialized"
    /\ UNCHANGED <<diff_vars, target_base, overwrite_mode, nodes_to_upload, stack, dropbox,
                   failures, disk>>

Index_Write ==
    /\ phase = "index_start"
    /\ \E d \in WriteDepths, only_uploaded \in BOOLEAN :
            /\ dropbox' = IndexOf(target_base, local, d, only_uploaded)
            /\ log' = <<[op |-> "write_index", max_recurse_depth |-> d,
                         only_uploaded |-> only_uploaded]>>
    /\ phase' = "indexed"
    /\ UNCHANGED <<diff_vars, target_base, overwrite_mode, nodes_to_upload, stack, failures,
                   disk>>

\* one child record of one metadata object is damaged
Index_Corrupt ==
    /\ phase = "indexed"
    /\ \E q \in DOMAIN dropbox.index :
            /\ "children" \in DOMAIN dropbox.index[q]
            /\ \E k \in 1..Len(dropbox.index[q].children) :
                \E bad \in Corrupted(dropbox.index[q].children[k]) :
                    /\ dropbox' = [dropbox EXCEPT !.index[q].children[k] = bad]
                    /\ log' = Append(log, [op |-> "corrupt", path |-> q, at |-> k])
    /\ phase' = "damaged"
    /\ UNCHANGED <<diff_vars, target_base, overwrite_mode, nodes_to_upload, stack, failures,
                   disk>>

\* the metadata object of one folder is not there
Index_Remove ==
    /\ phase = "indexed"
    /\ \E q \in DOMAIN dropbox.index :
            /\ dropbox' = [dropbox EXCEPT !.index = [p \in DOMAIN @ \ { q } |-> @[p]]]
            /\ log' = Append(log, [op |-> "remove", path |-> q])
    /\ phase' = "damaged"
    /\ UNCHANGED <<diff_vars, target_base, overwrite_mode, nodes_to_upload, stack, failures,
                   disk>>

\* NRootFolder().walk_remote_tree_r(client, target, target_folder)
Index_Walk ==
    /\ phase \in { "indexed", "damaged" }
    /\ \E d \in WalkDepths :
            LET walked == walk_remote_tree_r(dropbox, target_base, NRootFolder(<<>>), d)
            IN  /\ max_depth' = d
                /\ remote' = walked.node
                /\ phase' = IF walked.status = "returned" THEN "walked" ELSE "walk_crashed"
    /\ UNCHANGED <<local, diff_result, upload_vars>>

\* diff_trees(local_node_tree, remote_node_tree)
Index_Diff ==
    /\ phase = "walked"
    /\ diff_result' = diff_trees(local, remote, -1)
    /\ phase' = "index_diffed"
    /\ UNCHANGED <<local, remote, max_depth, upload_vars>>

NextIndex ==
    \/ Serialize
    \/ Index_Write
    \/ Index_Corrupt
    \/ Index_Remove
    \/ Index_Walk
    \/ Index_Diff

SpecIndex == InitIndex /\ [][NextIndex]_vars

IndexWritten(only_uploaded) ==
    /\ phase \in { "indexed", "damaged", "walked", "walk_crashed", "index_diffed" }
    /\ log[1].only_uploaded = only_uploaded

Intact == Len(log) = 1

WalkOver == phase \in { "walked", "walk_crashed", "index_diffed" }

RECURSIVE Reproduces(_, _)
Reproduces(t, r) ==
    /\ r.type = t.type /\ r.name = t.name /\ FiveEqual(t, r)
    /\ r.symlink_target = t.symlink_target
    /\ Len(r.children) = Len(t.children)
    /\ \A k \in 1..Len(t.children) :
            r.children[k].uploaded /\ Reproduces(t.children[k], r.children[k])

\* C11: when the serialization of a tree T (uploaded_only false, any depth
\* but 0) is written as the metadata objects of the target and the remote
\* tree is built from them without a depth limit, the walk returns and the
\* built tree has T's shape, node types, names, stats and symlink targets,
\* child for child in T's order, and every node it constructed (every node
\* below the root) has uploaded = true.
C11_RoundTrip ==
    (WalkOver /\ IndexWritten(FALSE) /\ Intact /\ max_depth = -1)
        => phase # "walk_crashed" /\ Reproduces(local, remote)

C11_Witness ==
    /\ phase = "walked" /\ IndexWritten(FALSE) /\ Intact /\ max_depth = -1
    /\ Reproduces(local, remote)
    /\ \E k \in 1..Len(local.children) :
            /\ IsFolder(local.children[k]) /\ ~local.children[k].uploaded
            /\ \E j \in 1..Len(local.children[k].children) :
                    remote.children[k].children[j].uploaded
    /\ \E k \in 1..Len(local.children) :
            IsSymlink(local.children[k]) /\ IsSymlink(remote.children[k])

\* the index as it was written, before an object or a record was damaged
WrittenIndex == IndexOf(target_base, local, log[1].max_recurse_depth, log[1].only_uploaded)

\* the tree that the walk builds from the index as it was written
IntactWalk == walk_remote_tree_r(WrittenIndex, target_base, NRootFolder(<<>>), max_depth).node

RemoveAt(s, k) == [i \in 1..(Len(s) - 1) |-> IF i < k THEN s[i] ELSE s[i + 1]]

\* the tree without the k-th child of the folder at a path of names
RECURSIVE WithoutChild(_, _, _)
WithoutChild(tree, names, k) ==
    IF names = <<>>
    THEN IF k \in 1..Len(tree.children)
         THEN [tree EXCEPT !.children = RemoveAt(@, k)]
         ELSE tree
    ELSE [tree EXCEPT !.children =
            [i \in 1..Len(@) |-> IF @[i].name = Head(names) /\ IsFolder(@[i])
                                 THEN WithoutChild(@[i], Tail(names), k)
                                 ELSE @[i]]]

Damaged(op) == Len(log) = 2 /\ log[2].op = op

\* the names below the target's base of a remote folder path
NamesOf(q) == SubSeq(q, Len(target_base) + 1, Len(q))

\* C12: when one child record of one metadata object is corrupted, whatever
\* the record reads as, the walk returns and the built tree is the tree of
\* the undamaged index without the node of that record: every other record
\* is deserialized.
C12_CorruptSkipped ==
    (WalkOver /\ Damaged("corrupt"))
        => /\ phase # "walk_crashed"
           /\ remote = WithoutChild(IntactWalk, NamesOf(log[2].path), log[2].at)

\* the tree with no children in the folder at a path of names
RECURSIVE WithoutChildren(_, _)
WithoutChildren(tree, names) ==
    IF names = <<>> THEN [tree EXCEPT !.children = <<>>]
    ELSE [tree EXCEPT !.children =
            [i \in 1..Len(@) |-> IF @[i].name = Head(names) /\ IsFolder(@[i])
                                 THEN WithoutChildren(@[i], Tail(names))
                                 ELSE @[i]]]

\* C13: when the metadata object of a folder is absent, the walk returns
\* without an error and builds that folder with no children, the rest of the
\* tree as the index records it; when it is the metadata object of the
\* target's root that is absent, the remote tree is empty and the diff keeps
\* every local node, with its subtree and unflagged, as local-only.
C13_AbsentMetadata ==
    /\ (WalkOver /\ Damaged("remove"))
            => /\ phase # "walk_crashed"
               /\ remote = WithoutChildren(IntactWalk, NamesOf(log[2].path))
    /\ (phase = "index_diffed" /\ Damaged("remove") /\ log[2].path = target_base)
            => /\ remote.children = <<>>
               /\ diff_result.status = "returned"
               /\ diff_result.node.children = SortByName(local.children)
               /\ \A at \in Paths(diff_result.node) : ~NodeAt(diff_result.node, at).todelete

C13_Witness ==
    /\ phase = "index_diffed" /\ Damaged("remove") /\ log[2].path = target_base
    /\ IntactWalk.children # <<>>
    /\ remote.children = <<>>
    /\ Len(diff_result.node.children) = 2
    /\ \E k \in 1..2 : diff_result.node.children[k].children # <<>>

\* the records of a serialization below its top, each with the path of names
\* that leads to it
RECURSIVE EncodedBelow(_, _)
EncodedBelow(obj, path) ==
    IF "children" \notin DOMAIN obj THEN {}
    ELSE UNION { LET c == obj.children[k]
                     here == Append(path, c.name)
                 IN  { [path |-> here, type |-> c.type, uploaded |-> c.uploaded,
                        stats |-> c.stats,
                        link |-> IF "symlink_target" \in DOMAIN c
                                 THEN c.symlink_target ELSE None,
                        open |-> "children" \in DOMAIN c] }
                        \cup EncodedBelow(c, here) :
                 k \in 1..Len(obj.children) }

\* the nodes below the root that a serialization to a depth is to hold: those
\* within the depth and, when only uploaded nodes are asked for, with every
\* node on the way to them uploaded
Serializable(tree, d, only_uploaded) ==
    { at \in Paths(tree) \ { <<>> } :
        /\ d = -1 \/ Len(at) <= d
        /\ only_uploaded => \A i \in 1..Len(at) : NodeAt(tree, SubSeq(at, 1, i)).uploaded }

ExpectedBelow(tree, d, only_uploaded) ==
    { LET n == NodeAt(tree, at)
      IN  [path |-> generate_path(tree, at), type |-> n.type, uploaded |-> n.uploaded,
           stats |-> [uid |-> n.uid, gid |-> n.gid, mode |-> n.mode, mtime |-> n.mtime,
                      size |-> n.size],
           link |-> n.symlink_target,
           open |-> IsFolder(n) /\ (d = -1 \/ Len(at) < d)] :
      at \in Serializable(tree, d, only_uploaded) }

\* C20: encodable(max_depth, uploaded_only) of a folder has no children list
\* when max_depth = 0; otherwise it holds exactly the nodes within max_depth
\* levels (all levels when max_depth = -1), a folder at the last level
\* without a children list, and when uploaded_only is true no record below
\* the top has uploaded = false.
C20_Serialize ==
    phase = "serialized" =>
        LET call == log[1]
            below == EncodedBelow(call.result, <<>>)
        IN  /\ call.max_recurse_depth = 0 => "children" \notin DOMAIN call.result
            /\ call.max_recurse_depth # 0 => "children" \in DOMAIN call.result
            /\ below = ExpectedBelow(local, call.max_recurse_depth, call.only_uploaded)
            /\ call.only_uploaded => \A c \in below : c.uploaded

C20_Witness ==
    /\ phase = "serialized"
    /\ log[1].max_recurse_depth = 1 /\ log[1].only_uploaded
    /\ Len(local.children) = 2
    /\ Len(log[1].result.children) = 1
    /\ \E k \in 1..2 : local.children[k].uploaded /\ local.children[k].children # <<>>
    /\ "children" \notin DOMAIN log[1].result.children[1]

(***************************************************************************)
(* rewrite_index_without_assumption_tree_r: the tree and the index rebuilt *)
(* from the listing of the remote folders.  The calls of one rebuild are   *)
(* threaded through the recursion as st = [store, calls]; fail names the   *)
(* one client call that raises, if any.                                    *)
(***************************************************************************)
NoFailure == [op |-> "none", path |-> <<>>, kind |-> "none"]

\* the result of a client call: what the store decides, unless it is the
\* call that raises
Outcome(fail, op, path, natural) ==
    IF fail.op = op /\ fail.path = path THEN fail.kind ELSE natural

Called(st, op, path, result) ==
    [st EXCEPT !.calls = Append(@, [op |-> op, path |-> path, result |-> result])]

\* metadata["contents"]: the entries directly in a folder, by name, a link
\* ("<name>.symlink") after the plain entry of the same name
RECURSIVE ContentsFrom(_, _, _)
ContentsFrom(objects, path, name) ==
    IF name > MaxName THEN <<>>
    ELSE LET at(symlink) == { o \in objects : o.path = Append(path, name)
                                                /\ o.symlink = symlink }
             entry(symlink) == IF at(symlink) = {} THEN <<>>
                               ELSE <<[name |-> name, symlink |-> symlink,
                                       is_dir |-> (CHOOSE o \in at(symlink) : TRUE).is_dir]>>
         IN  entry(FALSE) \o entry(TRUE) \o ContentsFrom(objects, path, name + 1)

\* a rebuild that knows no record of the old metadata
metadata_children_None(remote_meta) == <<>>

\* {child["name"]: child for child in remote_metadata["children"]}
metadata_children(remote_meta) ==
    IF "children" \notin DOMAIN remote_meta THEN <<>>
    ELSE LET records == remote_meta.children
             names == { records[k].name : k \in 1..Len(records) }
             last(name) == CHOOSE k \in 1..Len(records) :
                                /\ records[k].name = name
                                /\ \A j \in (k + 1)..Len(records) : records[j].name # name
         IN  [name \in names |-> records[last(name)]]

\* "if max_recurse_depth == 0 or grandchild_has_meta"
included_Always(max_recurse_depth, grandchild_has_meta) == TRUE

included(max_recurse_depth, grandchild_has_meta) ==
    max_recurse_depth = 0 \/ grandchild_has_meta

\* the except clause of the index write: "someone_has_meta = False"
after_failed_write_Kept(someone_has_meta) == someone_has_meta

after_failed_write(someone_has_meta) == FALSE

\* the call returns someone_has_meta, or raises
Left(st, op, path, someone_has_meta) ==
    [st EXCEPT !.calls = Append(@, [op |-> op, path |-> path,
                                    someone_has_meta |-> someone_has_meta])]

RECURSIVE rewrite_index_without_assumption_tree_r(_, _, _, _, _, _)
RECURSIVE rebuild_entries(_, _, _, _, _, _, _)

\* "for child in metadata['contents']", from the first entry left
rebuild_entries(st, fail, path, entries, known, rewrite_index, max_recurse_depth) ==
    IF entries = <<>> THEN [st |-> st, children |-> <<>>, someone_has_meta |-> FALSE]
    ELSE LET child == Head(entries)
             name == child.name
             one ==
                IF child.is_dir
                THEN LET stat_array == IF name \in DOMAIN known THEN known[name].stats
                                       ELSE NoStats
                         new_folder == Uploaded(NFolder(name, stat_array, <<>>))
                         below == IF max_recurse_depth # 0
                                  THEN rewrite_index_without_assumption_tree_r(
                                            st, fail, Append(path, name), new_folder,
                                            rewrite_index, max_recurse_depth - 1)
                                  ELSE [st |-> st, status |-> "returned",
                                        someone_has_meta |-> FALSE, node |-> new_folder]
                     IN  IF below.status = "raised"
                         THEN [st |-> below.st, nodes |-> <<>>, someone_has_meta |-> FALSE]
                         ELSE IF included(max_recurse_depth, below.someone_has_meta)
                         THEN [st |-> below.st, nodes |-> <<below.node>>,
                               someone_has_meta |-> TRUE]
                         ELSE [st |-> below.st, nodes |-> <<>>, someone_has_meta |-> FALSE]
                ELSE IF name \in DOMAIN known
                THEN LET child_meta == known[name]
                         child_node == IF child_meta.type = "NFolder"
                                       THEN NFolder(name, child_meta.stats, <<>>)
                                       ELSE NFile(name, child_meta.stats)
                     IN  [st |-> st,
                          nodes |-> <<copy_symlink_target(Uploaded(child_node), child_meta)>>,
                          someone_has_meta |-> FALSE]
                ELSE [st |-> st, nodes |-> <<>>, someone_has_meta |-> FALSE]
             rest == rebuild_entries(one.st, fail, path, Tail(entries), known, rewrite_index,
                                     max_recurse_depth)
         IN  [st |-> rest.st, children |-> one.nodes \o rest.children,
              someone_has_meta |-> one.someone_has_meta \/ rest.someone_has_meta]

rewrite_index_without_assumption_tree_r(st, fail, path, self, rewrite_index, max_recurse_depth) ==
    LET got == Outcome(fail, "get_file", path,
                       IF path \in DOMAIN st.store.index THEN "ok" ELSE "404")
        st1 == Called(st, "get_file", path, got)
        remote_meta == IF got = "ok" THEN st.store.index[path] ELSE <<>>
    IN  IF got = "error"
        THEN [st |-> Left(st1, "raise", path, FALSE), status |-> "raised",
              someone_has_meta |-> FALSE, node |-> self]
        ELSE
        LET listed == Outcome(fail, "metadata", path, "ok")
            st2 == Called(st1, "metadata", path, listed)
            walked == IF listed = "ok"
                      THEN rebuild_entries(st2, fail, path,
                                           ContentsFrom(st.store.objects, path, 1),
                                           metadata_children(remote_meta), rewrite_index,
                                           max_recurse_depth)
                      ELSE [st |-> st2, children |-> <<>>, someone_has_meta |-> FALSE]
            node == [self EXCEPT !.children = walked.children]
            someone_has_meta == got = "ok" \/ walked.someone_has_meta
        IN  IF rewrite_index /\ someone_has_meta
            THEN LET body == encodable(node, 1, TRUE)
                     put == Outcome(fail, "put_file", path, "ok")
                     st3 == [Called(walked.st, "put_file", path, put) EXCEPT
                                !.store = IF put = "ok" THEN PutIndex(@, path, body) ELSE @,
                                !.calls[Len(walked.st.calls) + 1] = ("body" :> body) @@ @]
                     returned == IF put = "ok" THEN someone_has_meta
                                 ELSE after_failed_write(someone_has_meta)
                 IN  [st |-> Left(st3, "return", path, returned), status |-> "returned",
                      node |-> node, someone_has_meta |-> returned]
            ELSE [st |-> Left(walked.st, "return", path, someone_has_meta),
                  status |-> "returned", node |-> node,
                  someone_has_meta |-> someone_has_meta]

(***************************************************************************)
(* The rebuild specification: a target holds the objects of a tree that    *)
(* was backed up, the metadata objects of some of its folders are lost,    *)
(* and rebuild() runs over it with at most one client call raising.        *)
(***************************************************************************)
RebuildTrees == Trees("remote", { Stat0 }, MaxNodes)

RebuildDepths == { -1, 0, 1 }

\* the store without the metadata objects of some folders
Keeping(store, kept) == [store EXCEPT !.index = [q \in kept |-> @[q]]]

Directories(store) == { o.path : o \in { o \in store.objects : o.is_dir } }

Failures(store) ==
    { NoFailure }
        \cup { [op |-> f[1], path |-> q, kind |-> f[2]] :
                    f \in { <<"get_file", "error">>, <<"get_file", "exception">>,
                            <<"metadata", "error">>, <<"put_file", "error">> },
                    q \in Directories(store) }

InitRebuild ==
    /\ local \in RebuildTrees
    /\ remote = NoNode
    /\ max_depth \in RebuildDepths
    /\ phase = "rebuild_start"
    /\ diff_result = Raised("none")
    /\ target_base \in TargetBases
    /\ overwrite_mode = TRUE
    /\ nodes_to_upload = NoNode
    /\ stack = <<>>
    /\ dropbox \in { Keeping(StoreOf(target_base, local), kept) :
                        kept \in SUBSET DOMAIN StoreOf(target_base, local).index }
    /\ log = <<>>
    /\ failures = 0
    /\ disk = {}

\* NRootFolder().rewrite_index_without_assumption_tree_r(client, target, target_folder)
Rebuild ==
    /\ phase = "rebuild_start"
    /\ \E fail \in Failures(dropbox), rewrite_index \in BOOLEAN :
            LET rebuilt == rewrite_index_without_assumption_tree_r(
                                [store |-> dropbox, calls |-> <<>>], fail, target_base,
                                NRootFolder(<<>>), rewrite_index, max_depth)
            IN  /\ remote' = rebuilt.node
                /\ dropbox' = rebuilt.st.store
                /\ log' = <<[op |-> "rebuild", rewrite_index |-> rewrite_index,
                             indexed |-> DOMAIN dropbox.index,
                             before |-> dropbox]>> \o rebuilt.st.calls
                /\ failures' = IF fail = NoFailure THEN 0 ELSE 1
                /\ phase' = IF rebuilt.status = "returned" THEN "rebuilt"
                            ELSE "rebuild_crashed"
    /\ UNCHANGED <<local, max_depth, diff_result, target_base, overwrite_mode,
                   nodes_to_upload, stack, disk>>

\* the next backup reads the index that the rebuild left
Rebuild_Walk ==
    /\ phase = "rebuilt"
    /\ diff_result' = walk_remote_tree_r(dropbox, target_base, NRootFolder(<<>>), -1)
    /\ phase' = "rebuilt_walked"
    /\ UNCHANGED <<local, remote, max_depth, upload_vars>>

NextRebuild ==
    \/ Rebuild
    \/ Rebuild_Walk

SpecRebuild == InitRebuild /\ [][NextRebuild]_vars

Rebuilt == phase \in { "rebuilt", "rebuilt_walked" }

\* a folder that is not a link, at a path of names below the root of a tree
RECURSIVE HasFolderAt(_, _)
HasFolderAt(tree, names) ==
    IF names = <<>> THEN PlainFolder(tree)
    ELSE \E k \in 1..Len(tree.children) :
            /\ tree.children[k].name = Head(names)
            /\ HasFolderAt(tree.children[k], Tail(names))

IndexWrites == { i \in 1..Len(log) : log[i].op = "put_file" }

\* a metadata object written at the parent's path lists the folder
ListedBy(i, q) ==
    /\ log[i].path = Parent(q)
    /\ \E k \in 1..Len(log[i].body.children) :
            LET c == log[i].body.children[k]
            IN  c.name = q[Len(q)] /\ c.type = "NFolder" /\ "symlink_target" \notin DOMAIN c

\* no metadata object in the directory or below it when the rebuild began
Bare(q) == \A p \in log[1].indexed : ~IsPrefix(q, p)

Returns(q) == { i \in 1..Len(log) : log[i].op = "return" /\ log[i].path = q }

FailedWrites == { i \in IndexWrites : log[i].result = "error" }

ZeroStats ==
    { [Stat0 EXCEPT !.uid = 0], [Stat0 EXCEPT !.gid = 0], [Stat0 EXCEPT !.mtime = 0] }

WithStats(n, stats) ==
    [n EXCEPT !.uid = stats.uid, !.gid = stats.gid, !.mode = stats.mode,
              !.mtime = stats.mtime, !.size = stats.size]

RECURSIVE StatsAt(_, _, _)
StatsAt(tree, at, stats) ==
    IF at = <<>> THEN WithStats(tree, stats)
    ELSE [tree EXCEPT !.children[Head(at)] = StatsAt(@, Tail(at), stats)]

RestoreTrees ==
    LET plain == Trees("remote", { Stat0 }, MaxUploadNodes)
    IN  plain \cup UNION { { StatsAt(t, at, stats) :
                                at \in { p \in Paths(t) \ { <<>> } : ~IsSymlink(NodeAt(t, p)) },
                                stats \in ZeroStats } :
                           t \in plain }

InitRestoreOnly ==
    /\ local = NRootFolder(<<>>)
    /\ remote \in RestoreTrees
    /\ max_depth = -1
    /\ phase = "restore_start"
    /\ diff_result = Raised("none")
    /\ target_base \in TargetBases
    /\ overwrite_mode \in BOOLEAN
    /\ nodes_to_upload = NoNode
    /\ stack = <<>>
    /\ dropbox = StoreOf(target_base, remote)
    /\ log = <<>>
    /\ failures = 0
    /\ disk \in Disks

NextRestore ==
    \/ Restore_Start
    \/ Restore_Except
    \/ Restore_Check
    \/ Restore_Symlink
    \/ File_Restore_Get
    \/ File_Restore_Attrs
    \/ Folder_Restore_Mkdir
    \/ Folder_Restore_Attrs
    \/ Folder_Restore_Child
    \/ Folder_Restore_Return

SpecRestore == InitRestoreOnly /\ [][NextRestore]_vars

InRestore == phase \in { "restore", "restored" }

RNode(at) == NodeAt(remote, at)

\* the attributes a node records: the root has none
Recorded(n) ==
    (IF n.mode # None THEN { "chmod" } ELSE {})
        \cup (IF n.uid # None /\ n.gid # None THEN { "chown" } ELSE {})
        \cup (IF n.mtime # None THEN { "utime" } ELSE {})

\* the restore of the folder at a path made the directory and applied every
\* recorded attribute before the log position i
Prepared(at, i) ==
    /\ \E m \in Calls(at, { "mkdir" }) : m < i /\ log[m].result \in { "ok", "17" }
    /\ \E a \in Calls(at, { "attrs" }) :
            a < i /\ log[a].result = "ok" /\ log[a].applied = Recorded(RNode(at))

\* C16: in a restore, the restore of a child of a non-symlink Folder starts
\* only after the folder's directory was created (or was there already) and
\* the folder's recorded mode, ownership and mtime were applied; when the
\* creation of the directory fails no restore of a child starts.
C16_FolderBeforeChildren ==
    InRestore =>
        \A i \in 1..Len(log) :
            (log[i].op = "restore" /\ log[i].node # <<>>) => Prepared(Parent(log[i].node), i)

\* C17: a restore of a non-symlink File that read the remote object has
\* written the whole body to the local path and then applied every recorded
\* attribute: mode, owner and group, and mtime with atime, whatever their
\* values (0 included).
C17_FileRestored ==
    InRestore =>
        \A at \in Paths(remote) :
            (~IsFolder(RNode(at)) /\ ~IsSymlink(RNode(at)) /\ Over(at) /\ FailedCalls(at) = {}
                /\ Calls(at, { "get_file" }) # {})
                => /\ \E o \in disk : o.path = full_local_path(at) /\ o.kind = "file"
                                        /\ o.body = "body"
                   /\ \E g \in Calls(at, { "get_file" }), a \in Calls(at, { "attrs" }) :
                        g < a /\ log[a].applied = Recorded(RNode(at))

\* C18: the restore of a node with symlink_target set, File or Folder, that
\* is not skipped makes no remote read, no chmod, chown or utime, no mkdir
\* and no restore of a child, and when no operation failed for another
\* reason it leaves a link to the recorded target at the node's path.
C18_SymlinkRestored ==
    InRestore =>
        \A at \in Paths(remote) :
            (IsSymlink(RNode(at)) /\ Over(at) /\ Calls(at, { "skip" }) = {})
                => /\ Calls(at, { "get_file", "open", "attrs", "mkdir" }) = {}
                   /\ \A d \in Paths(remote) : Under(at, d) => ~Attempted(d)
                   /\ failures = 0 =>
                        \E o \in disk : /\ o.path = full_local_path(at)
                                        /\ o.kind = "link"
                                        /\ o.body = RNode(at).symlink_target

\* the restore of the node on top of the stack is about to test its path
AtCheck == phase = "restore" /\ stack # <<>> /\ Top.pc = "start"

PathTaken == \E o \in disk : o.path = full_local_path(Top.node)

\* the step of a restore that finds its path taken and may not overwrite
SkipStep ==
    /\ disk' = disk
    /\ dropbox' = dropbox
    /\ stack' = SubSeq(stack, 1, Len(stack) - 1)
    /\ \A i \in (Len(log) + 1)..Len(log') : log'[i].op \in { "skip", "return" }

LeftOut(at) == Calls(at, { "skip" }) # {}

\* C19: when restore with overwrite_mode = false comes to a node whose local
\* path exists, it returns at once: nothing local is created or changed, no
\* remote object is read, and neither for the node nor for any node below it
\* is any operation or restore made afterwards.
C19_ExistingSkipped ==
    /\ [][(AtCheck /\ PathTaken /\ ~overwrite_mode) => SkipStep]_vars
    /\ [](InRestore =>
            \A at \in Paths(remote) :
                LeftOut(at) =>
                    /\ Calls(at, RemoteOps \cup LocalOps) = {}
                    /\ \A d \in Paths(remote) :
                            Under(at, d) => ~Attempted(d) /\ Calls(d, RemoteOps \cup LocalOps) = {})

C19_Witness ==
    /\ phase = "restored" /\ ~overwrite_mode
    /\ LeftOut(<<>>)
    /\ \E k \in 1..Len(remote.children) : remote.children[k].children # <<>>
    /\ \A d \in Paths(remote) \ { <<>> } :
            /\ ~Attempted(d)
            /\ Len(d) = 2 => ~\E o \in disk : o.path = full_local_path(d)

(***************************************************************************)
(* Properties of the trees that the builders and the diff engine produce.  *)
(***************************************************************************)
Nodes(tree) == { NodeAt(tree, at) : at \in Paths(tree) }

LinksAreLeaves(tree) == \A n \in Nodes(tree) : IsSymlink(n) => n.children = <<>>

\* C21: in the changeset that diff returns, as in the trees of the builders,
\* every node with symlink_target set has an empty children list, also when
\* a local symlinked folder is diffed against a remote real folder of the
\* same name.
C21_LinksAreLeaves ==
    Diffed => (LinksAreLeaves(local) /\ LinksAreLeaves(remote)
                    => LinksAreLeaves(diff_result.node))

(***************************************************************************)
(* Rebuild over a target that has drifted from its index: an object was    *)
(* left behind next to its replacement ("x" next to "x.symlink"), an       *)
(* object is gone, or a record is missing from a metadata object.          *)
(***************************************************************************)
\* a node was replaced by a link, or a link by a file, of the same name: the
\* upload wrote the new object and left the old one
LeftBehind(store) ==
    { [store EXCEPT !.objects = @ \cup { [path |-> o.path, symlink |-> ~o.symlink,
                                          is_dir |-> FALSE] }] :
        o \in { o \in store.objects : o.path # <<>> } }

\* an object was deleted from the target, its record stays
Gone(store) ==
    { [store EXCEPT !.objects = @ \ { o }] :
        o \in { o \in store.objects : o.path # <<>> /\ ~o.is_dir } }

\* a record is missing from the metadata object of a folder
Unrecorded(store) ==
    UNION { { [store EXCEPT !.index[q].children = RemoveAt(@, k)] :
                    k \in 1..Len(store.index[q].children) } :
            q \in DOMAIN store.index }

Drifted(store) == LeftBehind(store) \cup Gone(store) \cup Unrecorded(store)

InitRebuildDrifted ==
    /\ local \in RebuildTrees
    /\ remote = NoNode
    /\ max_depth \in RebuildDepths
    /\ phase = "rebuild_start"
    /\ diff_result = Raised("none")
    /\ target_base \in TargetBases
    /\ overwrite_mode = TRUE
    /\ nodes_to_upload = NoNode
    /\ stack = <<>>
    /\ dropbox \in Drifted(StoreOf(target_base, local))
    /\ log = <<>>
    /\ failures = 0
    /\ disk = {}

SpecRebuildDrifted == InitRebuildDrifted /\ [][NextRebuild]_vars

DistinctNames(tree) ==
    \A n \in Nodes(tree) : Cardinality(ChildNames(n)) = Len(n.children)

\* the entries of a folder's listing have pairwise distinct names, "x" and
\* "x.symlink" being two names, and so have the records of its metadata
DistinctRead(store) ==
    \A q \in DOMAIN store.index :
        \A j, k \in 1..Len(store.index[q].children) :
            store.index[q].children[j].name = store.index[q].children[k].name => j = k

\* C22: in the tree that the index rebuild produces, the children of any one
\* Folder have pairwise distinct names, when neither the listings nor the
\* metadata objects it read hold two entries of the same name.
C22_DistinctNames ==
    (Rebuilt /\ DistinctRead(dropbox)) => DistinctNames(remote)

(***************************************************************************)
(* The diff engine over pairs of trees that both reach the second level,   *)
(* with a bound on the recursion.                                          *)
(***************************************************************************)
BoundedDepths == { 1, 2 }

InitDiffDeep ==
    /\ local \in LocalTrees[MaxUploadNodes]
    /\ remote \in RemoteTrees[MaxUploadNodes]
    /\ max_depth \in BoundedDepths
    /\ phase = "start"
    /\ diff_result = Raised("none")
    /\ target_base = <<>>
    /\ overwrite_mode = TRUE
    /\ nodes_to_upload = NoNode
    /\ stack = <<>>
    /\ dropbox = [objects |-> {}, index |-> <<>>]
    /\ log = <<>>
    /\ failures = 0
    /\ disk = {}

SpecDiffDeep == InitDiffDeep /\ [][NextDiff]_vars

\* the changeset c of the folder pair (l, r) with n levels of recursion left:
\* a pair of same-named folders is merged while n > 0, and gives the whole
\* local or the whole remote node when n = 0; a pair merged at the last
\* level has a changeset as soon as either folder has a child, since no pair
\* below it can vanish
RECURSIVE DepthRule(_, _, _, _)
DepthRule(l, r, c, n) ==
    \A name \in ChildNames(l) \cap ChildNames(r) :
        LET ln == Child(l, name)
            rn == Child(r, name)
        IN  BothFolders(ln, rn) =>
                IF n = 0
                THEN /\ ChildrenNamed(c, name) # {}
                     /\ Child(c, name) = IF FiveEqual(ln, rn) THEN rn ELSE ln
                ELSE /\ ChildrenNamed(c, name) # {} => DepthRule(ln, rn, Child(c, name), n - 1)
                     /\ (n = 1 /\ Len(ln.children) + Len(rn.children) > 0)
                            => ChildrenNamed(c, name) # {}

\* C23: diff with max_depth = n >= 1 merges the children of same-named
\* Folder pairs down to n levels below the roots; a pair of same-named
\* Folders below that level gives the whole remote node when the five stats
\* are equal and the whole local node otherwise, without a merge.
C23_DepthBound ==
    (Diffed /\ max_depth >= 1) => DepthRule(local, remote, diff_result.node, max_depth)

(***************************************************************************)
(* Properties of upload at a remote path that holds an object of the other *)
(* type.                                                                   *)
(***************************************************************************)
Uploading == phase = "upload" /\ stack # <<>>

ProbedPath == full_remote_path(target_base, nodes_to_upload, Top.node)

\* the object at the path of the node on top of the stack
DirThere == \E o \in ObjectsAt(dropbox.objects, ProbedPath) : o.is_dir

FileThere == \E o \in ObjectsAt(dropbox.objects, ProbedPath) : ~o.is_dir

Deletes == { i \in 1..Len(log) : log[i].op = "file_delete" }

\* C24: with overwrite requested, upload comes to the put of a File only
\* when no remote directory is at its path, and to the directory creation of
\* a non-symlink Folder only when no remote non-directory is at its path:
\* the conflicting object was deleted first; without overwrite requested,
\* upload issues no delete.
C24_ConflictDeleted ==
    /\ (Uploading /\ overwrite_mode /\ ~IsFolder(Self) /\ Top.pc = "put") => ~DirThere
    /\ (Uploading /\ overwrite_mode /\ PlainFolder(Self) /\ Top.pc = "create") => ~FileThere
    /\ (Walking /\ ~overwrite_mode) => Deletes = {}

\* the child record that was damaged
DamagedRecord == dropbox.index[log[2].path].children[log[2].at]

UnknownType(c) == IsObject(c) /\ "type" \in DOMAIN c /\ c.type \notin { "NFile", "NFolder" }

\* C25: when the walk reads, in the metadata object of the root, a child
\* record whose type tag is neither NFile nor NFolder, an error is raised to
\* the caller of the walk, which aborts the command.
C25_UnknownTypeAborts ==
    (WalkOver /\ Damaged("corrupt") /\ log[2].path = target_base
        /\ UnknownType(DamagedRecord))
        => phase = "walk_crashed"

(***************************************************************************)
(* What a rebuild read in a folder: the call records of the folder's path  *)
(* say whether its metadata object was loaded and whether it was listed.   *)
(***************************************************************************)
CallsAt(op, q) == { i \in 1..Len(log) : log[i].op = op /\ log[i].path = q }

MetadataLoaded(q) == \E i \in CallsAt("get_file", q) : log[i].result = "ok"

ListingRead(q) == \E i \in CallsAt("metadata", q) : log[i].result = "ok"

\* the records of the metadata object the rebuild loaded in the folder
OldRecords(q) ==
    IF MetadataLoaded(q) /\ "children" \in DOMAIN log[1].before.index[q]
    THEN log[1].before.index[q].children
    ELSE <<>>

OldNamed(q, name) == { k \in 1..Len(OldRecords(q)) : OldRecords(q)[k].name = name }

\* the entries of the folder's listing under a logical name
EntriesNamed(q, name, is_dir) ==
    { o \in log[1].before.objects : o.path = Append(q, name) /\ o.is_dir = is_dir }

\* the node is the record's: its type, stats and symlink target, uploaded
FromRecord(c, r) ==
    /\ c.type = IF r.type = "NFolder" THEN "NFolder" ELSE "NFile"
    /\ c.uid = r.stats.uid /\ c.gid = r.stats.gid /\ c.mode = r.stats.mode
    /\ c.mtime = r.stats.mtime /\ c.size = r.stats.size
    /\ c.symlink_target = IF "symlink_target" \in DOMAIN r THEN r.symlink_target ELSE None
    /\ c.uploaded
    /\ c.children = <<>>

\* the children a rebuilt folder has under a name, and the records its
\* rewritten metadata object has under it
RebuiltNamed(n, name) == { k \in 1..Len(n.children) : n.children[k].name = name }

WrittenNamed(i, name) ==
    { k \in 1..Len(log[i].body.children) : log[i].body.children[k].name = name }

\* the rule in the rebuilt root folder
KnownOnlyAtRoot ==
    (Rebuilt /\ ListingRead(target_base)) =>
        \A name \in 1..MaxName :
            /\ EntriesNamed(target_base, name, TRUE) = {} =>
                    /\ Cardinality(RebuiltNamed(remote, name))
                            = IF OldNamed(target_base, name) # {}
                              THEN Cardinality(EntriesNamed(target_base, name, FALSE))
                              ELSE 0
                    /\ \A k \in RebuiltNamed(remote, name) :
                            \E j \in OldNamed(target_base, name) :
                                FromRecord(remote.children[k], OldRecords(target_base)[j])
            /\ (EntriesNamed(target_base, name, TRUE) = {}
                    /\ EntriesNamed(target_base, name, FALSE) = {}) =>
                    /\ RebuiltNamed(remote, name) = {}
                    /\ \A i \in IndexWrites :
                            log[i].path = target_base => WrittenNamed(i, name) = {}

\* every metadata object the rebuild wrote, in any folder, lists under a name
\* without a directory entry exactly the non-directory entries the old
\* metadata knew, with the old record's type, stats and symlink target
KnownOnlyWritten ==
    Rebuilt =>
        \A i \in IndexWrites :
            LET q == log[i].path
            IN  \A name \in 1..MaxName :
                    EntriesNamed(q, name, TRUE) = {} =>
                        /\ Cardinality(WrittenNamed(i, name))
                                = IF OldNamed(q, name) # {} /\ ListingRead(q)
                                  THEN Cardinality(EntriesNamed(q, name, FALSE))
                                  ELSE 0
                        /\ \A k \in WrittenNamed(i, name) :
                                \E j \in OldNamed(q, name) :
                                    LET w == log[i].body.children[k]
                                        r == OldRecords(q)[j]
                                    IN  /\ w.type = r.type /\ w.stats = r.stats
                                        /\ w.uploaded
                                        /\ ("symlink_target" \in DOMAIN w)
                                                <=> ("symlink_target" \in DOMAIN r)
                                        /\ "symlink_target" \in DOMAIN w
                                                => w.symlink_target = r.symlink_target


\* C26: in a folder whose listing the rebuild read, a non-directory entry is
\* a child of the rebuilt folder if and only if its logical name has a record
\* in the metadata object loaded for the folder, and the child has the
\* record's type, stats and symlink target and is marked uploaded; a name of
\* the old metadata with no entry in the listing has no child and no record
\* in the rewritten metadata object.  (Names that also have a directory
\* entry are left to the directory's rule.)
C26_KnownEntriesOnly == KnownOnlyAtRoot /\ KnownOnlyWritten

C26_Witness ==
    /\ Rebuilt /\ log[1].rewrite_index /\ failures = 0
    /\ \E a, b \in 1..MaxName :
            /\ EntriesNamed(target_base, a, FALSE) # {}
            /\ OldNamed(target_base, a) = {}
            /\ RebuiltNamed(remote, a) = {}
            /\ EntriesNamed(target_base, b, FALSE) # {}
            /\ OldNamed(target_base, b) # {}
            /\ RebuiltNamed(remote, b) # {}
            /\ \E i \in IndexWrites :
                    /\ log[i].path = target_base /\ log[i].result = "ok"
                    /\ WrittenNamed(i, a) = {} /\ WrittenNamed(i, b) # {}

(***************************************************************************)
(* The local tree build (NFolder.walk_local_tree_r).  The source directory *)
(* is a set of entries [path, kind, body, to]: a file, a directory, or a   *)
(* link, whose body is its target and which resolves to a file, to a       *)
(* directory or to nothing (a dangling link).                              *)
(***************************************************************************)
\* os.stat follows links and raises OSError when the link resolves to nothing
stat_raises(o) == o.kind = "link" /\ o.to = "nothing"

\* get_metadata_from_path: the stats of what the path resolves to
get_metadata_from_path(o) == Stat0

\* os.path.isdir follows links
os_path_isdir(o) == o.kind = "dir" \/ (o.kind = "link" /\ o.to = "dir")

os_path_islink(o) == o.kind = "link"

\* glob.iglob(os.path.join(full_local_path, "*")): the entries directly in
\* the directory, in the order of the directory's listing
RECURSIVE Globbed(_, _, _)
Globbed(fs, path, name) ==
    IF name > MaxName THEN <<>>
    ELSE LET here == { o \in fs : o.path = Append(path, name) }
         IN  (IF here = {} THEN <<>> ELSE <<CHOOSE o \in here : TRUE>>)
                \o Globbed(fs, path, name + 1)

glob_iglob(fs, path, order) ==
    IF order = "down" THEN Reverse(Globbed(fs, path, 1)) ELSE Globbed(fs, path, 1)

RECURSIVE walk_local_tree_r(_, _, _, _, _)
RECURSIVE walk_local_entries(_, _, _, _, _)

\* "for g in glob.iglob(...)", from the first entry left; nothing catches
\* the OSError of get_metadata_from_path
walk_local_entries(fs, path, entries, order, max_recurse_depth) ==
    IF entries = <<>> THEN [status |-> "returned", children |-> <<>>]
    ELSE LET g == Head(entries)
             name == g.path[Len(g.path)]
             stats == get_metadata_from_path(g)
         IN  IF stat_raises(g) THEN [status |-> "raised", children |-> <<>>]
             ELSE
             LET one == IF os_path_isdir(g)
                        THEN IF max_recurse_depth # 0
                             THEN walk_local_tree_r(fs, g.path, NFolder(name, stats, <<>>),
                                                    order, max_recurse_depth - 1)
                             ELSE [status |-> "returned", node |-> NFolder(name, stats, <<>>)]
                        ELSE [status |-> "returned",
                              node |-> IF os_path_islink(g)
                                       THEN [NFile(name, stats) EXCEPT
                                                !.symlink_target = g.body]
                                       ELSE NFile(name, stats)]
             IN  IF one.status = "raised" THEN [status |-> "raised", children |-> <<>>]
                 ELSE LET rest == walk_local_entries(fs, path, Tail(entries), order,
                                                     max_recurse_depth)
                      IN  [status |-> rest.status,
                           children |-> IF rest.status = "raised" THEN <<>>
                                        ELSE <<one.node>> \o rest.children]

walk_local_tree_r(fs, path, self, order, max_recurse_depth) ==
    LET here == { o \in fs : o.path = path }
        linked == here # {} /\ os_path_islink(CHOOSE o \in here : TRUE)
    IN  IF linked
        THEN [status |-> "returned",
              node |-> [self EXCEPT !.symlink_target = (CHOOSE o \in here : TRUE).body]]
        ELSE LET walked == walk_local_entries(fs, path, glob_iglob(fs, path, order), order,
                                              max_recurse_depth)
             IN  [status |-> walked.status,
                  node |-> [self EXCEPT !.children = walked.children]]

(***************************************************************************)
(* The local build specification: a source directory of a bounded tree,    *)
(* some of whose links dangle, is walked once.                             *)
(***************************************************************************)
LinkPaths(tree) ==
    { generate_path(tree, at) : at \in { at \in Paths(tree) : IsSymlink(NodeAt(tree, at)) } }

\* the entries a tree stands for, the links at the paths in broken dangling
SourceOf(tree, broken) ==
    { LET n == NodeAt(tree, at)
          p == generate_path(tree, at)
      IN  IF IsSymlink(n)
          THEN [path |-> p, kind |-> "link", body |-> n.symlink_target,
                to |-> IF p \in broken THEN "nothing"
                       ELSE IF IsFolder(n) THEN "dir" ELSE "file"]
          ELSE [path |-> p, kind |-> IF IsFolder(n) THEN "dir" ELSE "file",
                body |-> 0, to |-> "itself"] :
      at \in Paths(tree) \ { <<>> } }

Sources ==
    UNION { { SourceOf(tree, broken) : broken \in SUBSET LinkPaths(tree) } :
            tree \in LocalTrees[MaxNodes] }

LocalDepths == { -1, 0, 1 }

InitLocal ==
    /\ local = NoNode
    /\ remote = NoNode
    /\ max_depth \in LocalDepths
    /\ phase = "local_start"
    /\ diff_result = Raised("none")
    /\ target_base \in TargetBases
    /\ overwrite_mode = TRUE
    /\ nodes_to_upload = NoNode
    /\ stack = <<>>
    /\ dropbox = StoreOf(target_base, NRootFolder(<<>>))
    /\ log = <<>>
    /\ failures = 0
    /\ disk \in Sources

\* local_node_tree = NRootFolder(); local_node_tree.walk_local_tree_r(source)
Local_Walk ==
    /\ phase = "local_start"
    /\ \E order \in { "up", "down" } :
            LET walked == walk_local_tree_r(disk, <<>>, NRootFolder(<<>>), order, max_depth)
            IN  /\ local' = IF walked.status = "returned" THEN walked.node ELSE NoNode
                /\ phase' = IF walked.status = "returned" THEN "local_walked"
                            ELSE "local_crashed"
                /\ log' = <<[op |-> "walk_local", order |-> order]>>
    /\ UNCHANGED <<remote, max_depth, diff_result, target_base, overwrite_mode,
                   nodes_to_upload, stack, dropbox, failures, disk>>

NextLocal == Local_Walk

SpecLocal == InitLocal /\ [][NextLocal]_vars

LocalWalkOver == phase \in { "local_walked", "local_crashed" }

RECURSIVE HasNodeAt(_, _)
HasNodeAt(tree, names) ==
    IF names = <<>> THEN TRUE
    ELSE ~IsNone(tree) /\ \E k \in 1..Len(tree.children) :
            /\ tree.children[k].name = Head(names)
            /\ HasNodeAt(tree.children[k], Tail(names))

\* an entry the build gets to: in directories that are not links, within the
\* depth of the walk
InReach(o) ==
    /\ \A k \in 1..(Len(o.path) - 1) :
            \E d \in disk : d.path = SubSeq(o.path, 1, k) /\ d.kind = "dir"
    /\ max_depth = -1 \/ Len(o.path) <= max_depth + 1

\* C27: when one entry of the source cannot be stat'ed (a dangling link),
\* the local build does not abort, and every other entry it gets to has its
\* node in the tree.
C27_StatFailureContained ==
    LocalWalkOver =>
        /\ phase = "local_walked"
        /\ \A o \in disk : (~stat_raises(o) /\ InReach(o)) => HasNodeAt(local, o.path)

(***************************************************************************)
(* Consecutive backups: when a backup is over, the next one reads the      *)
(* remote tree from the index the last one left and diffs the same local   *)
(* tree against it.                                                        *)
(***************************************************************************)
InitRuns ==
    /\ InitBackup
    /\ max_depth = -1
    /\ diff_result = Raised("none")
    /\ target_base \in TargetBases
    /\ overwrite_mode \in BOOLEAN
    /\ nodes_to_upload = NoNode
    /\ stack = <<>>
    /\ dropbox = StoreOf(target_base, remote)
    /\ log = <<>>
    /\ failures = 0

\* remote_node_tree = NRootFolder(); remote_node_tree.walk_remote_tree_r(...)
Backup_Again ==
    /\ phase = "done"
    /\ LET walked == walk_remote_tree_r(dropbox, target_base, NRootFolder(<<>>), -1)
       IN  /\ walked.status = "returned"
           /\ remote' = walked.node
    /\ phase' = "start"
    /\ diff_result' = Raised("none")
    /\ nodes_to_upload' = NoNode
    /\ log' = <<>>
    /\ UNCHANGED <<local, max_depth, target_base, overwrite_mode, stack, dropbox, failures,
                   disk>>

NextRuns ==
    \/ Backup_Again
    \/ Backup_Diff
    \/ Upload_Except
    \/ File_Skip
    \/ File_Probe
    \/ File_Delete
    \/ File_Put
    \/ File_Chunk
    \/ File_Finish
    \/ Folder_Probe
    \/ Folder_Delete
    \/ Folder_PutSymlink
    \/ Folder_Create
    \/ Folder_Child
    \/ Folder_WriteMeta

SpecRuns == InitRuns /\ [][NextRuns]_vars

RunOver == phase = "done" /\ failures = 0 /\ overwrite_mode

\* the folders of the local tree that are not links
LocalFolders == { at \in Paths(local) : PlainFolder(NodeAt(local, at)) }

\* the names a folder's metadata object lists
IndexedNames(q) ==
    IF q \in DOMAIN dropbox.index /\ "children" \in DOMAIN dropbox.index[q]
    THEN { dropbox.index[q].children[k].name : k \in 1..Len(dropbox.index[q].children) }
    ELSE {}

\* the names the index listed in the folder when the run read it
ListedBefore(names) ==
    IF HasNodeAt(remote, names)
    THEN LET RECURSIVE Down(_, _)
             Down(tree, rest) == IF rest = <<>> THEN tree
                                 ELSE Down(Child(tree, Head(rest)), Tail(rest))
         IN  ChildNames(Down(remote, names))
    ELSE {}

\* C28: when a backup run in which no operation failed is over, the metadata
\* object of every local folder lists every child the folder has locally
\* (empty and symlinked sub-folders included), and whatever the index listed
\* before the run and still exists locally is still listed.
C28_IndexKeepsChildren ==
    RunOver =>
        \A at \in LocalFolders :
            LET names == generate_path(local, at)
            IN  /\ ChildNames(NodeAt(local, at)) \subseteq IndexedNames(target_base \o names)
                /\ (ListedBefore(names) \cap ChildNames(NodeAt(local, at)))
                        \subseteq IndexedNames(target_base \o names)

ListingFailed(q) == \E i \in CallsAt("metadata", q) : log[i].result # "ok"

\* the names a metadata object lists
RecordNames(meta) ==
    IF "children" \in DOMAIN meta
    THEN { meta.children[k].name : k \in 1..Len(meta.children) }
    ELSE {}

\* C29: when the listing of a folder fails during a rebuild, the metadata
\* object the folder had is still there and lists every entry it listed
\* before the rebuild.
C29_ListingFailureKeepsIndex ==
    Rebuilt =>
        \A q \in log[1].indexed :
            ListingFailed(q) =>
                /\ q \in DOMAIN dropbox.index
                /\ RecordNames(log[1].before.index[q]) \subseteq RecordNames(dropbox.index[q])

(***************************************************************************)
(* A backup into a folder of the target: "<name>:/" or "<name>:/<folder>". *)
(***************************************************************************)
\* a folder name that no node of the trees has
BaseName == MaxName + 1

SubBases == { <<>>, <<BaseName>> }

InitBase ==
    /\ InitBackup
    /\ max_depth = -1
    /\ diff_result = Raised("none")
    /\ target_base \in SubBases
    /\ overwrite_mode \in BOOLEAN
    /\ nodes_to_upload = NoNode
    /\ stack = <<>>
    /\ dropbox = StoreOf(target_base, remote)
    /\ log = <<>>
    /\ failures = 0

NextBase ==
    \/ Backup_Diff
    \/ Upload_Except
    \/ File_Skip
    \/ File_Probe
    \/ File_Delete
    \/ File_Put
    \/ File_Chunk
    \/ File_Finish
    \/ Folder_Probe
    \/ Folder_Delete
    \/ Folder_PutSymlink
    \/ Folder_Create
    \/ Folder_Child
    \/ Folder_WriteMeta

SpecBase == InitBase /\ [][NextBase]_vars

Creates == { i \in 1..Len(log) : log[i].op = "file_create_folder" }

\* C30: for every target base, the directory that upload creates for a
\* folder is at the remote path under which the folder's metadata object
\* and its children's objects are written.
C30_CreatedWhereWritten ==
    Walking =>
        \A i \in Creates :
            /\ log[i].path = full_remote_path(target_base, nodes_to_upload, log[i].node)
            /\ \A j \in MetaWrites(log[i].node) : log[j].path = log[i].path

\* the node's own path, or the path of an ancestor below the destination
\* directory, was found taken
LeftOutAbove(at) == \E k \in 1..Len(at) : LeftOut(SubSeq(at, 1, k))

\* C31: when a restore from the root with overwrite_mode = false into an
\* existing destination directory is over and no call failed, every node
\* below the root is on disk, unless the restore found the node's own path
\* or the path of an ancestor below the destination taken: a node whose path
\* did not exist was restored.
C31_MissingRestored ==
    (phase = "restored" /\ ~overwrite_mode /\ failures = 0) =>
        \A at \in Paths(remote) \ { <<>> } :
            ~LeftOutAbove(at) => Exists(full_local_path(at))

(***************************************************************************)
(* The upload walk with a source file that is shorter than the size the    *)
(* tree recorded for it (it was truncated after the local tree was built). *)
(* The loop "while uploader.offset < self.size" reads the file through the *)
(* uploader: a chunk call sends what is left of the file, and at the end   *)
(* of the file it has nothing to send.                                     *)
(***************************************************************************)
ShortLengths == { 0, Stat0.size }

\* the files of a tree that go through the chunked uploader
ChunkedFiles(tree) ==
    { at \in Paths(tree) :
        LET n == NodeAt(tree, at)
        IN  ~IsFolder(n) /\ ~IsSymlink(n) /\ ~single_put(n) }

ShortSources(tree) ==
    { {} } \cup { { [path |-> generate_path(tree, at), kind |-> "file", body |-> length] } :
                    at \in ChunkedFiles(tree), length \in ShortLengths }

InitLive ==
    /\ local \in UploadLocalTrees[MaxUploadNodes]
    /\ remote \in UploadRemoteTrees[MaxUploadNodes - Size(local)]
    /\ phase = "start"
    /\ disk \in ShortSources(local)
    /\ max_depth = -1
    /\ diff_result = Raised("none")
    /\ target_base \in TargetBases
    /\ overwrite_mode \in BOOLEAN
    /\ nodes_to_upload = NoNode
    /\ stack = <<>>
    /\ dropbox = StoreOf(target_base, remote)
    /\ log = <<>>
    /\ failures = 0

\* the last call of the walk was a chunk call of this node that sent nothing
AtEndOfFile ==
    /\ log # <<>>
    /\ log[Len(log)].op = "upload_chunked"
    /\ log[Len(log)].node = Top.node
    /\ log[Len(log)].result = "eof"

\* uploader.upload_chunked() on a file shorter than self.size: it raises, or
\* the offset advances to the end of the file, or, at the end of the file,
\* the call returns with the offset where it was (calls counts such calls,
\* modulo 2)
File_Chunk_Short ==
    /\ Running("NFile", "put")
    /\ ~IsSymlink(Self) /\ ~single_put(Self)
    /\ Top.offset < Self.size
    /\ SourceLength(Top.node) < Self.size
    /\ LET rp == full_remote_path(target_base, nodes_to_upload, Top.node)
           length == SourceLength(Top.node)
       IN  \/ /\ failures < MaxFailures
              /\ Failed("error")
              /\ After(Call("upload_chunked", rp, "error"), "raised")
           \/ /\ Top.offset < length
              /\ stack' = [stack EXCEPT ![Len(stack)].offset = length]
              /\ log' = Append(log, Call("upload_chunked", rp, "ok") @@ ("offset" :> length))
              /\ phase' = phase
              /\ Failed("ok")
           \/ /\ ~(Top.offset < length)
              /\ log' = IF AtEndOfFile
                        THEN [log EXCEPT ![Len(log)].calls = 1 - @]
                        ELSE Append(log, Call("upload_chunked", rp, "eof")
                                            @@ ("offset" :> Top.offset) @@ ("calls" :> 1))
              /\ UNCHANGED <<stack, phase>>
              /\ Failed("ok")
    /\ UNCHANGED <<diff_vars, disk, target_base, overwrite_mode, nodes_to_upload, dropbox>>

NextLive ==
    \/ Backup_Diff
    \/ Upload_Except
    \/ File_Skip
    \/ File_Probe
    \/ File_Delete
    \/ File_Put
    \/ File_Chunk
    \/ File_Chunk_Short
    \/ File_Finish
    \/ Folder_Probe
    \/ Folder_Delete
    \/ Folder_PutSymlink
    \/ Folder_Create
    \/ Folder_Child
    \/ Folder_WriteMeta

\* the walk is single-threaded and synchronous: a step that can be taken is
\* taken
SpecLive == InitLive /\ [][NextLive]_vars /\ WF_vars(NextLive)

Finishes(at) == Calls(at, { "finish" })

\* each node is visited at most once, and the chunked upload of a file is
\* finalized at most once, with the session offset at the recorded size
VisitedOnce ==
    Walking =>
        \A at \in Paths(nodes_to_upload) :
            /\ Cardinality(Calls(at, { "upload" })) <= 1
            /\ Cardinality(Finishes(at)) <= 1
            /\ \A i \in Finishes(at) : log[i].offset >= NodeAt(nodes_to_upload, at).size

WalkEnded == phase \in { "done", "crashed" }

=============================================================================
